---- MODULE Spec2Model ----
(***************************************************************************)
(* A model of the CityGML extraction pipeline: the batch driver of         *)
(* scripts/extract.js (per-file extraction with footprint deduplication,   *)
(* then the footprint, spatial-index and mesh-container writers), the      *)
(* stand-alone duplicate fixer of tools/debug-duplicates.ts, the           *)
(* extractor of tools/extract-citygml.ts with its command line, and the    *)
(* position-list parsers.                                                  *)
(*                                                                         *)
(* Numbers are integers; a quotient the code computes in floating point    *)
(* (a centroid) is kept as an exact fraction [n, d].                       *)
(***************************************************************************)
EXTENDS Integers, Sequences, FiniteSets, TLC

VARIABLES
  \* ---- scripts/extract.js: main, processGMLSync, the three writers
  files,                \* the sorted .gml files of IN_DIR, each a list of assembled buildings
  pc,                   \* position of the run
  fi,                   \* index of the file the for-loop of main is at
  ci,                   \* index of the building processGMLSync is at
  footprintToBuilding,  \* the deduplication map of the current processGMLSync call
  buildings,            \* the list processGMLSync is building
  all,                  \* main's list of every emitted building
  geojson,              \* footprints.geojson: the features written
  idx,                  \* the Flatbush object of writeFlatbushIndex
  indexBin,             \* index.bin: the boxes serialized
  idsJson,              \* ids.json
  buildingsWithMeshes,  \* writeGLB: the buildings that carry a mesh
  buildingCenters,      \* writeGLB: one centre per building with a mesh
  centeredPositions,    \* writeGLB: one re-centred position buffer per building with a mesh
  bi,                   \* index of the building a writer's loop is at
  glb,                  \* the container written: its nodes and meshes
  exitCode,             \* the status the process ended with (-1 while running)
  \* ---- tools/debug-duplicates.ts: fixBuildingIds
  fixInput,             \* the `buildings` argument
  fixPc,                \* position in fixBuildingIds
  fixI,                 \* index of the building the for-loop is at
  fixState,             \* footprintToBuilding, fixedBuildings and newIdCounter
  \* ---- tools/extract-citygml.ts: the command line, processDirectory, extractFromCityGML
  cliPath,              \* what args[0] names: "missing", "file" or "dir"
  cliFiles,             \* the .gml files the run reads, in the order it reads them
  cliPc,                \* position of the run
  cliK,                 \* index of the file the for-loop of processDirectory is at
  allBuildings,         \* processDirectory's list; the command line's `buildings`
  returned,             \* how each extractFromCityGML call came back to its caller
  cliErrors,            \* the lines written with console.error
  outputFile,           \* the JSON file the command line writes
  cliExit,              \* the status the process ended with (-1 while running)
  \* ---- posListToXYZ (scripts/extract.js) and parsePosList (tools/extract-citygml.ts)
  posFn,                \* which of the two parsers runs
  posNums,              \* the numbers the position list was written from
  text,                 \* the argument: the position list, a sequence of characters
  posPc,                \* position in the parser
  posA,                 \* a / coords: text.trim().split(/\s+/).map(Number)
  posI,                 \* the loop index i
  points,               \* the points pushed so far; the result at the return
  \* ---- tools/extract-citygml.ts: extractBuildingGeometry for one bldg:Building
  geoBuilding,          \* the element: its gml:id and its bldg:boundedBy entries
  geoPc,                \* position in the loop body of extractFromCityGML
  geoS,                 \* index of the surface the for-loop is at
  geoResult,            \* result: id, footprint, height, walls, roof, ground
  maxHeight,            \* the local maxHeight
  geoEmitted,           \* what the loop body pushed to `buildings`
  \* ---- tools/extract-citygml.ts: extractFromCityGML over a parsed document
  docMembers,           \* the core:cityObjectMember elements, each with its bldg:Building elements
  docPc,                \* position in extractFromCityGML
  docK,                 \* index of the entry of buildingsToProcess the loop is at
  buildingsToProcess,   \* the local buildingsToProcess
  docBuildings,         \* the local `buildings`, returned at the end
  \* ---- tools/extract-citygml.ts: processAllDAFiles
  daDirExists,          \* whether ./data/complete exists
  daPresent,            \* the DA numbers whose file is in ./data/complete
  daFiles,              \* the local daFiles: the names, sorted
  daPc,                 \* position in processAllDAFiles
  daI,                  \* the loop index i
  daProcessed,          \* the names handed to extractFromCityGML, in order
  daBuildings,          \* the local allBuildings
  \* ---- scripts/sample.js: processAllFiles
  gmlFiles,             \* the files listed, each with what createSampleFromFile does on it
  skipOnError,          \* the --skip-on-error flag
  batchPc,              \* position in processAllFiles
  batchI,               \* the loop index i
  attempted,            \* the indices createSampleFromFile was called on, in order
  processedCount,       \* the local processedCount
  failedCount,          \* the local failedCount
  statusEmojis,         \* the local statusEmojis
  batchExit,            \* the status process.exit was called with (-1 if it was not)
  \* ---- scripts/sample.js: createSampleFromFile
  smpFile,              \* the input file: its buildings, the percentage, the filter, the random source
  smpPc,                \* position in createSampleFromFile
  selectedIndicesSet,   \* the local selectedIndicesSet
  smp,                  \* the locals processLine reads and writes
  smpOut,               \* what outputStream was given, and what the promise resolved to
  \* ---- scripts/argparse.ts and the argument handling of scripts/sample.js
  argv,                 \* process.argv.slice(2), or the one string handed to parseRange
  argCall,              \* the function called and its parameters
  argPc,                \* whether the call has returned
  argOut,               \* what the call returned, threw or exited with
  \* ---- scripts/sample-chunked.js: createChunkedSampleFromFile
  chkFile,              \* the input file and the chunk size
  chkPc,                \* position in createChunkedSampleFromFile
  chk,                  \* the locals processLine reads and writes, and the chunk files
  chkOut,               \* what the promise resolved to
  \* ---- filterFile (tools/debug-duplicates.ts)
  fltFile,              \* the input file, the percentage, the chunk size, the filter
  fltPc,                \* where the run of filterFile is
  flt,                  \* the locals of filterFile and the chunk files it wrote
  fltOut,               \* the FilterResult the promise resolved with
  \* ---- createSampleFromFile and processAllFiles (scripts/sample.ts)
  tsFile,               \* the input file, the percentage, the chunk size, the filter
  tsPc,                 \* where the run of createSampleFromFile is
  ts,                   \* the locals of createSampleFromFile and the files it wrote
  tsOut,                \* the FilterResult and what processAllFiles made of it
  \* ---- createSampleGML (tools/create-sample-gml.ts)
  gmlFile,              \* the input file: its buildings
  gmlPc,                \* whether createSampleGML has run
  gmlOut                \* the ranges it found and the sample file it wrote

runVars == <<files, pc, fi, ci, footprintToBuilding, buildings, all, geojson, idx,
             indexBin, idsJson, buildingsWithMeshes, buildingCenters, centeredPositions,
             bi, glb, exitCode>>

fixVars == <<fixInput, fixPc, fixI, fixState>>

cliVars == <<cliPath, cliFiles, cliPc, cliK, allBuildings, returned, cliErrors,
             outputFile, cliExit>>

posVars == <<posFn, posNums, text, posPc, posA, posI, points>>

geoVars == <<geoBuilding, geoPc, geoS, geoResult, maxHeight, geoEmitted>>

docVars == <<docMembers, docPc, docK, buildingsToProcess, docBuildings>>

daVars == <<daDirExists, daPresent, daFiles, daPc, daI, daProcessed, daBuildings>>

batchVars == <<gmlFiles, skipOnError, batchPc, batchI, attempted, processedCount,
               failedCount, statusEmojis, batchExit>>

smpVars == <<smpFile, smpPc, selectedIndicesSet, smp, smpOut>>

argVars == <<argv, argCall, argPc, argOut>>

chkVars == <<chkFile, chkPc, chk, chkOut>>

fltVars == <<fltFile, fltPc, flt, fltOut>>

tsVars == <<tsFile, tsPc, ts, tsOut>>

gmlVars == <<gmlFile, gmlPc, gmlOut>>

vars == <<runVars, fixVars, cliVars, posVars, geoVars, docVars, daVars, batchVars,
         smpVars, argVars, chkVars, fltVars, tsVars, gmlVars>>

\* What the actions of one program leave alone: the state of the others.
RunFrame == UNCHANGED <<fixVars, cliVars, posVars, geoVars, docVars, daVars, batchVars,
                        smpVars, argVars, chkVars, fltVars, tsVars, gmlVars>>
FixFrame == UNCHANGED <<runVars, cliVars, posVars, geoVars, docVars, daVars, batchVars,
                        smpVars, argVars, chkVars, fltVars, tsVars, gmlVars>>
CliFrame == UNCHANGED <<runVars, fixVars, posVars, geoVars, docVars, daVars, batchVars,
                        smpVars, argVars, chkVars, fltVars, tsVars, gmlVars>>
PosFrame == UNCHANGED <<runVars, fixVars, cliVars, geoVars, docVars, daVars, batchVars,
                        smpVars, argVars, chkVars, fltVars, tsVars, gmlVars>>
GeoFrame == UNCHANGED <<runVars, fixVars, cliVars, posVars, docVars, daVars, batchVars,
                        smpVars, argVars, chkVars, fltVars, tsVars, gmlVars>>
DocFrame == UNCHANGED <<runVars, fixVars, cliVars, posVars, geoVars, daVars, batchVars,
                        smpVars, argVars, chkVars, fltVars, tsVars, gmlVars>>
DaFrame == UNCHANGED <<runVars, fixVars, cliVars, posVars, geoVars, docVars, batchVars,
                       smpVars, argVars, chkVars, fltVars, tsVars, gmlVars>>
BatchFrame == UNCHANGED <<runVars, fixVars, cliVars, posVars, geoVars, docVars, daVars,
                          smpVars, argVars, chkVars, fltVars, tsVars, gmlVars>>
SmpFrame == UNCHANGED <<runVars, fixVars, cliVars, posVars, geoVars, docVars, daVars,
                        batchVars, argVars, chkVars, fltVars, tsVars, gmlVars>>
ArgFrame == UNCHANGED <<runVars, fixVars, cliVars, posVars, geoVars, docVars, daVars,
                        batchVars, smpVars, chkVars, fltVars, tsVars, gmlVars>>
ChkFrame == UNCHANGED <<runVars, fixVars, cliVars, posVars, geoVars, docVars, daVars,
                        batchVars, smpVars, argVars, fltVars, tsVars, gmlVars>>
FltFrame == UNCHANGED <<runVars, fixVars, cliVars, posVars, geoVars, docVars, daVars,
                        batchVars, smpVars, argVars, chkVars, tsVars, gmlVars>>
TsFrame == UNCHANGED <<runVars, fixVars, cliVars, posVars, geoVars, docVars, daVars,
                       batchVars, smpVars, argVars, chkVars, fltVars, gmlVars>>
GmlFrame == UNCHANGED <<runVars, fixVars, cliVars, posVars, geoVars, docVars, daVars,
                        batchVars, smpVars, argVars, chkVars, fltVars, tsVars>>

\* ------------------------------------------------------------------ bounds

\* At most this many input files in a run.
MaxFiles == 2
\* At most this many assembled buildings in a run, over all its files.
MaxBuildings == 3
\* At most this many numbers in a position list.
MaxNums == 7
\* At most this many vertices in a mesh handed to writeGLB on its own.
MaxVerts == 3
\* At most this many buildings in a list handed to writeGLB on its own.
MaxGlbBuildings == 2

\* ------------------------------------------------------------- data model

RECURSIVE SumSeq(_)
SumSeq(s) == IF s = <<>> THEN 0 ELSE Head(s) + SumSeq(Tail(s))

\* All sequences over S of length at most n.
SeqUpTo(S, n) == UNION {[1..k -> S] : k \in 0..n}

Range(s) == {s[k] : k \in DOMAIN s}

\* Two footprints of the target plane: a square and a triangle.
FootprintSquare == <<<<0, 0>>, <<10, 0>>, <<10, 10>>, <<0, 10>>>>
FootprintTriangle == <<<<2, 1>>, <<6, 1>>, <<2, 4>>>>
Footprints == {FootprintSquare, FootprintTriangle}

\* Building.mesh is optional: a building without one has present = FALSE.
NoMesh == [present |-> FALSE, positions |-> <<>>, indices |-> <<>>]
MeshOf(positions, indices) ==
  [present |-> TRUE, positions |-> positions, indices |-> indices]
TriangleMesh == MeshOf(<<2, 1, 0, 6, 1, 0, 2, 4, 3>>, <<0, 1, 2>>)
RunMeshes == {NoMesh, TriangleMesh}

Heights == {5}

\* JSON.stringify of a number[][]: "[[x,y],[x,y]]".
RECURSIVE StringifyPoints(_)
StringifyPoints(ps) ==
  IF ps = <<>> THEN ""
  ELSE "[" \o ToString(Head(ps)[1]) \o "," \o ToString(Head(ps)[2]) \o "]"
       \o (IF Len(ps) > 1 THEN "," ELSE "") \o StringifyPoints(Tail(ps))

JSONstringify(footprint) == "[" \o StringifyPoints(footprint) \o "]"

\* The value JavaScript's Infinity stands for: above every coordinate of the model.
Infinity == 1000000

\* bbox2D: the running minima and maxima over the points, from +-Infinity.
RECURSIVE bbox2DFrom(_, _, _)
bbox2DFrom(coords, k, box) ==
  IF k > Len(coords) THEN box
  ELSE LET x == coords[k][1]
           y == coords[k][2]
       IN bbox2DFrom(coords, k + 1,
            << IF x < box[1] THEN x ELSE box[1],
               IF y < box[2] THEN y ELSE box[2],
               IF x > box[3] THEN x ELSE box[3],
               IF y > box[4] THEN y ELSE box[4] >>)

bbox2D(coords) == bbox2DFrom(coords, 1, <<Infinity, Infinity, -Infinity, -Infinity>>)

\* ------------------------------------------------ scripts/extract.js: input

\* An assembled building as processGMLSync holds it before deduplication.
Candidates == [footprint : Footprints, height_m : Heights, mesh : RunMeshes]

\* The buildings of file f: the stretch of the flat list between the ends of file
\* f - 1 and of file f, each with the identifier it was assembled under.
FileOf(flat, ends, f) ==
  LET from == IF f = 1 THEN 0 ELSE ends[f - 1]
  IN [n \in 1..(ends[f] - from) |->
        [id |-> "b_" \o ToString(f) \o "_" \o ToString(n),
         footprint |-> flat[from + n].footprint,
         height_m |-> flat[from + n].height_m,
         mesh |-> flat[from + n].mesh]]

\* The ways to cut a list of len buildings into n files (a file may be empty).
FileEnds(n, len) ==
  {ends \in [1..n -> 0..len] :
     /\ n > 0 => ends[n] = len
     /\ \A f \in 1..(n - 1) : ends[f] <= ends[f + 1]}

\* Every input of a run: up to MaxFiles files holding up to MaxBuildings buildings.
RunInputs ==
  UNION {UNION {{[f \in 1..n |-> FileOf(flat, ends, f)] : ends \in FileEnds(n, Len(flat))}
                : flat \in IF n = 0 THEN {<<>>} ELSE SeqUpTo(Candidates, MaxBuildings)}
         : n \in 0..MaxFiles}

NotWritten == [written |-> FALSE, content |-> <<>>]
Written(content) == [written |-> TRUE, content |-> content]
NoIndex == [numItems |-> 0, boxes |-> <<>>, finished |-> FALSE]
EmptyMap == [k \in {} |-> NoMesh]

\* The state of a program that is not running.
RunIdle ==
  /\ files = <<>>
  /\ pc = "idle"
  /\ fi = 1
  /\ ci = 1
  /\ bi = 1
  /\ footprintToBuilding = EmptyMap
  /\ buildings = <<>>
  /\ all = <<>>
  /\ geojson = NotWritten
  /\ idx = NoIndex
  /\ indexBin = NotWritten
  /\ idsJson = NotWritten
  /\ buildingsWithMeshes = <<>>
  /\ buildingCenters = <<>>
  /\ centeredPositions = <<>>
  /\ glb = NotWritten
  /\ exitCode = -1

NoFixState == [footprintToBuilding |-> EmptyMap, fixedBuildings |-> <<>>, newIdCounter |-> 0]

FixIdle ==
  /\ fixInput = <<>>
  /\ fixPc = "idle"
  /\ fixI = 1
  /\ fixState = NoFixState

CliIdle ==
  /\ cliPath = "none"
  /\ cliFiles = <<>>
  /\ cliPc = "idle"
  /\ cliK = 1
  /\ allBuildings = <<>>
  /\ returned = <<>>
  /\ cliErrors = <<>>
  /\ outputFile = NotWritten
  /\ cliExit = -1

PosIdle ==
  /\ posFn = "none"
  /\ posNums = <<>>
  /\ text = <<>>
  /\ posPc = "idle"
  /\ posA = <<>>
  /\ posI = 0
  /\ points = <<>>

NoResult == [id |-> "", footprint |-> <<>>, height |-> 0, walls |-> <<>>, roof |-> <<>>,
             ground |-> <<>>]
NoBuilding == [id |-> "", boundedBy |-> <<>>]

GeoIdle ==
  /\ geoBuilding = NoBuilding
  /\ geoPc = "idle"
  /\ geoS = 1
  /\ geoResult = NoResult
  /\ maxHeight = 0
  /\ geoEmitted = <<>>

DocIdle ==
  /\ docMembers = <<>>
  /\ docPc = "idle"
  /\ docK = 1
  /\ buildingsToProcess = <<>>
  /\ docBuildings = <<>>

DaIdle ==
  /\ daDirExists = FALSE
  /\ daPresent = {}
  /\ daFiles = <<>>
  /\ daPc = "idle"
  /\ daI = 0
  /\ daProcessed = <<>>
  /\ daBuildings = <<>>

BatchIdle ==
  /\ gmlFiles = <<>>
  /\ skipOnError = FALSE
  /\ batchPc = "idle"
  /\ batchI = 0
  /\ attempted = <<>>
  /\ processedCount = 0
  /\ failedCount = 0
  /\ statusEmojis = <<>>
  /\ batchExit = -1

SmpIdle ==
  /\ smpFile = <<>>
  /\ smpPc = "idle"
  /\ selectedIndicesSet = {}
  /\ smp = <<>>
  /\ smpOut = <<>>

ArgIdle ==
  /\ argv = <<>>
  /\ argCall = <<>>
  /\ argPc = "idle"
  /\ argOut = <<>>

ChkIdle ==
  /\ chkFile = <<>>
  /\ chkPc = "idle"
  /\ chk = <<>>
  /\ chkOut = <<>>

FltIdle ==
  /\ fltFile = <<>>
  /\ fltPc = "idle"
  /\ flt = <<>>
  /\ fltOut = <<>>

TsIdle ==
  /\ tsFile = <<>>
  /\ tsPc = "idle"
  /\ ts = <<>>
  /\ tsOut = <<>>

GmlIdle ==
  /\ gmlFile = <<>>
  /\ gmlPc = "idle"
  /\ gmlOut = <<>>

\* The programs of the samplers, of the argument parser and of the filter are not running.
MoreIdle == SmpIdle /\ ArgIdle /\ ChkIdle /\ FltIdle /\ TsIdle /\ GmlIdle

\* The programs added after the first four are not running.
RestIdle == GeoIdle /\ DocIdle /\ DaIdle /\ BatchIdle /\ MoreIdle

RunInit ==
  /\ FixIdle
  /\ CliIdle
  /\ PosIdle
  /\ RestIdle
  /\ files \in RunInputs
  /\ pc = "start"
  /\ fi = 1
  /\ ci = 1
  /\ bi = 1
  /\ footprintToBuilding = EmptyMap
  /\ buildings = <<>>
  /\ all = <<>>
  /\ geojson = NotWritten
  /\ idx = NoIndex
  /\ indexBin = NotWritten
  /\ idsJson = NotWritten
  /\ buildingsWithMeshes = <<>>
  /\ buildingCenters = <<>>
  /\ centeredPositions = <<>>
  /\ glb = NotWritten
  /\ exitCode = -1

\* ------------------------------------------------- scripts/extract.js: main

\* if (!files.length) { console.error(...); process.exit(1); }
MainNoFiles ==
  /\ RunFrame
  /\ pc = "start"
  /\ Len(files) = 0
  /\ pc' = "exited"
  /\ exitCode' = 1
  /\ UNCHANGED <<files, fi, ci, bi, footprintToBuilding, buildings, all, geojson, idx,
                 indexBin, idsJson, buildingsWithMeshes, buildingCenters,
                 centeredPositions, glb>>

\* const all = []; for (const f of files) ...
MainBegin ==
  /\ RunFrame
  /\ pc = "start"
  /\ Len(files) > 0
  /\ all' = <<>>
  /\ fi' = 1
  /\ pc' = "loop"
  /\ UNCHANGED <<files, ci, bi, footprintToBuilding, buildings, geojson, idx, indexBin,
                 idsJson, buildingsWithMeshes, buildingCenters, centeredPositions, glb,
                 exitCode>>

\* The call processGMLSync(path.join(IN_DIR, f), ...): the deduplication map and
\* the result list are the call's own.
ProcessGMLSyncBegin ==
  /\ RunFrame
  /\ pc = "loop"
  /\ fi <= Len(files)
  /\ footprintToBuilding' = EmptyMap
  /\ buildings' = <<>>
  /\ ci' = 1
  /\ pc' = "process"
  /\ UNCHANGED <<files, fi, bi, all, geojson, idx, indexBin, idsJson,
                 buildingsWithMeshes, buildingCenters, centeredPositions, glb, exitCode>>

\* One assembled building b with footprint mainFootprint: skipped when the map
\* holds its footprint key, stored and emitted otherwise.
DedupStep ==
  /\ RunFrame
  /\ pc = "process"
  /\ ci <= Len(files[fi])
  /\ LET b == files[fi][ci]
         footprintKey == JSONstringify(b.footprint)
     IN IF footprintKey \in DOMAIN footprintToBuilding
        THEN UNCHANGED <<footprintToBuilding, buildings>>
        ELSE /\ footprintToBuilding' = footprintToBuilding @@ (footprintKey :> b)
             /\ buildings' = Append(buildings, b)
  /\ ci' = ci + 1
  /\ UNCHANGED <<files, pc, fi, bi, all, geojson, idx, indexBin, idsJson,
                 buildingsWithMeshes, buildingCenters, centeredPositions, glb, exitCode>>

\* return buildings;  then in main: all.push(...bs)
MainPush ==
  /\ RunFrame
  /\ pc = "process"
  /\ ci > Len(files[fi])
  /\ all' = all \o buildings
  /\ fi' = fi + 1
  /\ pc' = "loop"
  /\ UNCHANGED <<files, ci, bi, footprintToBuilding, buildings, geojson, idx, indexBin,
                 idsJson, buildingsWithMeshes, buildingCenters, centeredPositions, glb,
                 exitCode>>

MainLoopEnd ==
  /\ RunFrame
  /\ pc = "loop"
  /\ fi > Len(files)
  /\ pc' = "writeFootprints"
  /\ UNCHANGED <<files, fi, ci, bi, footprintToBuilding, buildings, all, geojson, idx,
                 indexBin, idsJson, buildingsWithMeshes, buildingCenters,
                 centeredPositions, glb, exitCode>>

\* ---------------------------------------------- scripts/extract.js: writers

\* buildings.map(b => ({type:'Feature', properties:{id, height_m},
\*                      geometry:{type:'Polygon', coordinates:[b.footprint]}}))
Features(bs) ==
  [k \in DOMAIN bs |->
     [id |-> bs[k].id, height_m |-> bs[k].height_m, coordinates |-> <<bs[k].footprint>>]]

\* A slip: the writer orders the caller's list in place before it maps it.
writeFootprintsGeoJSONInPlace ==
  /\ RunFrame
  /\ pc = "writeFootprints"
  /\ all' = [k \in DOMAIN all |-> all[Len(all) + 1 - k]]
  /\ geojson' = Written(Features(all'))
  /\ pc' = "flatbushNew"
  /\ UNCHANGED <<files, fi, ci, bi, footprintToBuilding, buildings, idx, indexBin,
                 idsJson, buildingsWithMeshes, buildingCenters, centeredPositions, glb,
                 exitCode>>

writeFootprintsGeoJSON ==
  /\ RunFrame
  /\ pc = "writeFootprints"
  /\ geojson' = Written(Features(all))
  /\ pc' = "flatbushNew"
  /\ UNCHANGED <<files, fi, ci, bi, footprintToBuilding, buildings, all, idx, indexBin,
                 idsJson, buildingsWithMeshes, buildingCenters, centeredPositions, glb,
                 exitCode>>

\* const idx = new Flatbush(0): the constructor of the flatbush package rejects a
\* count that is not positive with an Error; nothing catches it, the promise of
\* the async main is rejected and the process ends with status 1.
FlatbushNewThrows ==
  /\ RunFrame
  /\ pc = "flatbushNew"
  /\ Len(all) = 0
  /\ pc' = "crashed"
  /\ exitCode' = 1
  /\ UNCHANGED <<files, fi, ci, bi, footprintToBuilding, buildings, all, geojson, idx,
                 indexBin, idsJson, buildingsWithMeshes, buildingCenters,
                 centeredPositions, glb>>

\* const idx = new Flatbush(buildings.length);
FlatbushNew ==
  /\ RunFrame
  /\ pc = "flatbushNew"
  /\ Len(all) > 0
  /\ idx' = [numItems |-> Len(all), boxes |-> <<>>, finished |-> FALSE]
  /\ bi' = 1
  /\ pc' = "flatbushAdd"
  /\ UNCHANGED <<files, fi, ci, footprintToBuilding, buildings, all, geojson, indexBin,
                 idsJson, buildingsWithMeshes, buildingCenters, centeredPositions, glb,
                 exitCode>>

\* The box added for building b: bbox2D(b.footprint).
BoxOf(b) == bbox2D(b.footprint)

\* for (const b of buildings) { ...; idx.add(minX, minY, maxX, maxY); }
FlatbushAdd ==
  /\ RunFrame
  /\ pc = "flatbushAdd"
  /\ bi <= Len(all)
  /\ idx' = [idx EXCEPT !.boxes = Append(@, BoxOf(all[bi]))]
  /\ bi' = bi + 1
  /\ UNCHANGED <<files, pc, fi, ci, footprintToBuilding, buildings, all, geojson,
                 indexBin, idsJson, buildingsWithMeshes, buildingCenters,
                 centeredPositions, glb, exitCode>>

\* idx.finish(); fs.writeFileSync(outBin, Buffer.from(idx.data.buffer));
FlatbushFinish ==
  /\ RunFrame
  /\ pc = "flatbushAdd"
  /\ bi > Len(all)
  /\ idx' = [idx EXCEPT !.finished = TRUE]
  /\ indexBin' = Written(idx.boxes)
  /\ pc' = "writeIds"
  /\ UNCHANGED <<files, fi, ci, bi, footprintToBuilding, buildings, all, geojson,
                 idsJson, buildingsWithMeshes, buildingCenters, centeredPositions, glb,
                 exitCode>>

\* A slip: the test for a mesh is left out.
WithMeshesUnfiltered(bs) == bs

\* for (const b of buildings) { if (!b.mesh) continue; ... }
WithMeshes(bs) == SelectSeq(bs, LAMBDA b : b.mesh.present)

\* A slip: the ids of the buildings that reach the container only.
IdsOfMeshed(bs) == [k \in DOMAIN WithMeshes(bs) |-> WithMeshes(bs)[k].id]

\* buildings.map(b => b.id)
IdsOf(bs) == [k \in DOMAIN bs |-> bs[k].id]

\* fs.writeFileSync(outIds, JSON.stringify(buildings.map(b => b.id)));
WriteIds ==
  /\ RunFrame
  /\ pc = "writeIds"
  /\ idsJson' = Written(IdsOf(all))
  /\ pc' = "writeGLB"
  /\ UNCHANGED <<files, fi, ci, bi, footprintToBuilding, buildings, all, geojson, idx,
                 indexBin, buildingsWithMeshes, buildingCenters, centeredPositions, glb,
                 exitCode>>

\* ------------------------------------------------------------ writeGLB

\* A fraction n/d, d # 0, and the arithmetic the centring needs.
Frac(n, d) == <<n, d>>
FracEq(a, b) == a[1] * b[2] = b[1] * a[2]
FracAdd(a, b) == <<a[1] * b[2] + b[1] * a[2], a[2] * b[2]>>
\* p - c for a number p and a fraction c
SubFrac(p, c) == <<p * c[2] - c[1], c[2]>>

\* for (let i = 0; i < positions.length; i += 3) centerX += positions[i + axis];
RECURSIVE SumAxis(_, _, _)
SumAxis(positions, i, axis) ==
  IF i >= Len(positions) THEN 0
  ELSE positions[i + axis + 1] + SumAxis(positions, i + 3, axis)

\* A slip: the number of floats is taken for the number of vertices.
VertexCountOfFloats(positions) == Len(positions)

\* const vertexCount = positions.length / 3;
VertexCount(positions) == Len(positions) \div 3

\* center = { x: centerX / vertexCount, y: centerY / vertexCount, z: centerZ / vertexCount }
CenterOf(positions) ==
  [x |-> Frac(SumAxis(positions, 0, 0), VertexCount(positions)),
   y |-> Frac(SumAxis(positions, 0, 1), VertexCount(positions)),
   z |-> Frac(SumAxis(positions, 0, 2), VertexCount(positions))]

\* centered[j] = positions[j] - center.x; centered[j+1] = positions[j+1] - center.y; ...
Centered(positions, center) ==
  [j \in DOMAIN positions |->
     SubFrac(positions[j],
             CASE (j - 1) % 3 = 0 -> center.x
               [] (j - 1) % 3 = 1 -> center.y
               [] OTHER -> center.z)]

GlbFilter ==
  /\ RunFrame
  /\ pc = "writeGLB"
  /\ buildingsWithMeshes' = WithMeshes(all)
  /\ buildingCenters' = <<>>
  /\ centeredPositions' = <<>>
  /\ bi' = 1
  /\ pc' = "glbCenter"
  /\ UNCHANGED <<files, fi, ci, footprintToBuilding, buildings, all, geojson, idx,
                 indexBin, idsJson, glb, exitCode>>

\* for (const building of buildingsWithMeshes) { ...; buildingCenters.push(center);
\*   ...; centeredPositions.push(centered); }
GlbCenter ==
  /\ RunFrame
  /\ pc = "glbCenter"
  /\ bi <= Len(buildingsWithMeshes)
  /\ LET positions == buildingsWithMeshes[bi].mesh.positions
         center == CenterOf(positions)
     IN /\ buildingCenters' = Append(buildingCenters, center)
        /\ centeredPositions' = Append(centeredPositions, Centered(positions, center))
  /\ bi' = bi + 1
  /\ UNCHANGED <<files, pc, fi, ci, footprintToBuilding, buildings, all, geojson, idx,
                 indexBin, idsJson, buildingsWithMeshes, glb, exitCode>>

\* nodes: buildingsWithMeshes.map((_, i) => ({ mesh: i, translation: [c.x, c.y, c.z] }))
NodesOf(bs, centers) ==
  [k \in DOMAIN bs |->
     [name |-> bs[k].id,
      mesh |-> k - 1,
      translation |-> <<centers[k].x, centers[k].y, centers[k].z>>]]

\* One mesh per building with a mesh: its re-centred positions and its indices.
MeshesOf(bs, centered) ==
  [k \in DOMAIN bs |->
     [name |-> bs[k].id, positions |-> centered[k], indices |-> bs[k].mesh.indices]]

GlbWrite ==
  /\ RunFrame
  /\ pc = "glbCenter"
  /\ bi > Len(buildingsWithMeshes)
  /\ glb' = Written([nodes |-> NodesOf(buildingsWithMeshes, buildingCenters),
                     meshes |-> MeshesOf(buildingsWithMeshes, centeredPositions)])
  /\ pc' = "done"
  /\ exitCode' = 0
  /\ UNCHANGED <<files, fi, ci, bi, footprintToBuilding, buildings, all, geojson, idx,
                 indexBin, idsJson, buildingsWithMeshes, buildingCenters,
                 centeredPositions>>

RunNext ==
  \/ MainNoFiles
  \/ MainBegin
  \/ ProcessGMLSyncBegin
  \/ DedupStep
  \/ MainPush
  \/ MainLoopEnd
  \/ writeFootprintsGeoJSON
  \/ FlatbushNewThrows
  \/ FlatbushNew
  \/ FlatbushAdd
  \/ FlatbushFinish
  \/ WriteIds
  \/ GlbFilter
  \/ GlbCenter
  \/ GlbWrite

SpecRun == RunInit /\ [][RunNext]_vars

\* ------------------------------------------------ properties of the run

RunFinished == pc = "done"

SerializedFootprintsDistinct(bs) ==
  \A j, k \in DOMAIN bs :
     j # k => JSONstringify(bs[j].footprint) # JSONstringify(bs[k].footprint)

\* C1: after a complete run no two buildings of the emitted list have the same
\* serialized footprint, whether they come from one input file or from two.
C1_EmittedFootprintsDistinct == RunFinished => SerializedFootprintsDistinct(all)

\* The smallest and the largest member of a non-empty set of numbers.
MinOf(S) == CHOOSE m \in S : \A n \in S : m <= n
MaxOf(S) == CHOOSE m \in S : \A n \in S : m >= n

\* The axis-aligned bounding box of a non-empty footprint.
BoundingBox(footprint) ==
  << MinOf({p[1] : p \in Range(footprint)}), MinOf({p[2] : p \in Range(footprint)}),
     MaxOf({p[1] : p \in Range(footprint)}), MaxOf({p[2] : p \in Range(footprint)}) >>

\* C3: when the index is finished it has received exactly one box per building,
\* as many as the capacity it was constructed with; the id array has that length
\* too, and the k-th box added is the bounding box of the building whose id is
\* ids[k].
C3_IndexAndIdsInLockStep ==
  /\ idx.finished =>
       /\ idx.numItems = Len(all)
       /\ Len(idx.boxes) = idx.numItems
  /\ indexBin.written => idx.finished /\ indexBin.content = idx.boxes
  /\ idsJson.written =>
       /\ idx.finished
       /\ Len(idsJson.content) = Len(idx.boxes)
       /\ \A k \in DOMAIN idsJson.content :
            /\ idsJson.content[k] = all[k].id
            /\ idx.boxes[k] = BoundingBox(all[k].footprint)

C3_Witness ==
  /\ idsJson.written
  /\ Len(all) >= 2
  /\ idx.boxes[1] # idx.boxes[2]
  /\ \E k \in DOMAIN all : ~all[k].mesh.present

WriterPcs == {"writeFootprints", "flatbushNew", "flatbushAdd", "writeIds", "writeGLB",
              "glbCenter"}

\* C4: the three writers only read the emitted list: from the first write to the
\* last the list is unchanged, so the k-th feature, ids[k] and the k-th index box
\* describe the same building.
C4_WritersOnlyRead ==
  /\ [][(pc \in WriterPcs) => (all' = all)]_vars
  /\ [](RunFinished =>
          /\ Len(geojson.content) = Len(all)
          /\ Len(idsJson.content) = Len(all)
          /\ Len(indexBin.content) = Len(all)
          /\ \A k \in DOMAIN all :
               /\ geojson.content[k].id = all[k].id
               /\ geojson.content[k].height_m = all[k].height_m
               /\ geojson.content[k].coordinates = <<all[k].footprint>>
               /\ idsJson.content[k] = geojson.content[k].id
               /\ indexBin.content[k] = BoundingBox(geojson.content[k].coordinates[1]))

C4_Witness ==
  /\ RunFinished
  /\ Len(all) >= 2
  /\ all[1].footprint # all[2].footprint

\* The positions in bs of the buildings that carry a mesh, in increasing order.
MeshedPositions(bs) == {k \in DOMAIN bs : bs[k].mesh.present}

\* C8: a building without mesh data has no node and no mesh in the container and
\* is still in the footprint collection and in ids/index at its position; the
\* nodes are exactly the buildings that have a mesh, in building order.
C8_MeshlessExcludedFromContainer ==
  glb.written =>
    LET nodes == glb.content.nodes
        meshes == glb.content.meshes
    IN /\ Len(nodes) = Cardinality(MeshedPositions(all))
       /\ Len(meshes) = Len(nodes)
       /\ \A k \in MeshedPositions(all) :
            nodes[Cardinality({j \in MeshedPositions(all) : j <= k})].name = all[k].id
       /\ \A k \in DOMAIN all :
            ~all[k].mesh.present =>
               /\ \A n \in DOMAIN nodes : nodes[n].name # all[k].id
               /\ \A n \in DOMAIN meshes : meshes[n].name # all[k].id
               /\ geojson.content[k].id = all[k].id
               /\ idsJson.content[k] = all[k].id
               /\ indexBin.content[k] = BoundingBox(all[k].footprint)

C8_Witness ==
  /\ glb.written
  /\ Len(all) = 3
  /\ all[1].mesh.present
  /\ ~all[2].mesh.present
  /\ all[3].mesh.present
  /\ Len(glb.content.nodes) = 2

\* ------------------------------- tools/debug-duplicates.ts: fixBuildingIds

\* A building read back from footprints.geojson: id, footprint, height_m.
FixIds == {"b_0", "b_1"}
FixHeights == {5, 8}
FixBuildings == [id : FixIds, footprint : Footprints, height_m : FixHeights]

FixInit ==
  /\ RunIdle
  /\ CliIdle
  /\ PosIdle
  /\ RestIdle
  /\ fixInput \in SeqUpTo(FixBuildings, MaxBuildings)
  /\ fixPc = "loop"
  /\ fixI = 1
  /\ fixState = NoFixState

\* A slip: a duplicate replaces the building kept for its footprint.
FixOneKeepLast(st, building) ==
  LET footprintKey == JSONstringify(building.footprint)
      fixedBuilding == [building EXCEPT !.id = "building_" \o ToString(st.newIdCounter)]
      old == st.fixedBuildings
  IN IF footprintKey \notin DOMAIN st.footprintToBuilding
     THEN [footprintToBuilding |-> st.footprintToBuilding @@ (footprintKey :> fixedBuilding),
           fixedBuildings |-> Append(st.fixedBuildings, fixedBuilding),
           newIdCounter |-> st.newIdCounter + 1]
     ELSE [st EXCEPT !.fixedBuildings =
             [k \in DOMAIN old |->
                IF JSONstringify(old[k].footprint) = footprintKey
                THEN [id |-> old[k].id, footprint |-> building.footprint,
                      height_m |-> building.height_m]
                ELSE old[k]]]

\* The body of the for-loop: a new footprint gets the next id, is stored in the map
\* and pushed; a footprint the map holds is skipped.
FixOne(st, building) ==
  LET footprintKey == JSONstringify(building.footprint)
      fixedBuilding == [building EXCEPT !.id = "building_" \o ToString(st.newIdCounter)]
  IN IF footprintKey \notin DOMAIN st.footprintToBuilding
     THEN [footprintToBuilding |-> st.footprintToBuilding @@ (footprintKey :> fixedBuilding),
           fixedBuildings |-> Append(st.fixedBuildings, fixedBuilding),
           newIdCounter |-> st.newIdCounter + 1]
     ELSE st

FixStep ==
  /\ FixFrame
  /\ fixPc = "loop"
  /\ fixI <= Len(fixInput)
  /\ fixState' = FixOne(fixState, fixInput[fixI])
  /\ fixI' = fixI + 1
  /\ UNCHANGED <<fixInput, fixPc>>

\* return fixedBuildings;
FixReturn ==
  /\ FixFrame
  /\ fixPc = "loop"
  /\ fixI > Len(fixInput)
  /\ fixPc' = "done"
  /\ UNCHANGED <<fixInput, fixI, fixState>>

FixNext == FixStep \/ FixReturn

SpecFix == FixInit /\ [][FixNext]_vars

\* The positions of the input whose footprint no earlier position serializes to.
FirstOccurrences(bs) ==
  {k \in DOMAIN bs :
     \A j \in 1..(k - 1) : JSONstringify(bs[j].footprint) # JSONstringify(bs[k].footprint)}

\* C2: of the input buildings that share a serialized footprint exactly the first
\* in input order is kept and every later one is dropped; the kept buildings are
\* in their input order.
C2_FirstOfEachFootprintKept ==
  fixPc = "done" =>
    LET kept == FirstOccurrences(fixInput)
        out == fixState.fixedBuildings
    IN /\ Len(out) = Cardinality(kept)
       /\ \A k \in kept :
            LET n == Cardinality({j \in kept : j <= k})
            IN /\ out[n].footprint = fixInput[k].footprint
               /\ out[n].height_m = fixInput[k].height_m

C2_Witness ==
  /\ fixPc = "done"
  /\ Len(fixInput) = 3
  /\ fixInput[1].footprint = fixInput[3].footprint
  /\ fixInput[1].footprint # fixInput[2].footprint
  /\ fixInput[1].height_m # fixInput[3].height_m
  /\ Len(fixState.fixedBuildings) = 2

\* ------------------------------------------- tools/extract-citygml.ts: input

\* A bldg:Building element as extractFromCityGML sees it: whether it has a
\* bldg:boundedBy, and the footprint extractBuildingGeometry derives from it
\* (empty when no ground polygon is found).
CliElements ==
  {[boundedBy |-> FALSE, footprint |-> <<>>]}
    \cup [boundedBy : {TRUE}, footprint : {<<>>} \cup Footprints]

\* The UTF-16 code unit of a character file names are written with.
CodeUnit(c) ==
  CASE c = "." -> 46
    [] c = "0" -> 48
    [] c = "1" -> 49
    [] c = "2" -> 50
    [] c = "3" -> 51
    [] c = "4" -> 52
    [] c = "5" -> 53
    [] c = "6" -> 54
    [] c = "7" -> 55
    [] c = "8" -> 56
    [] c = "9" -> 57
    [] c = "A" -> 65
    [] c = "B" -> 66
    [] c = "D" -> 68
    [] c = "M" -> 77
    [] c = "_" -> 95
    [] c = "a" -> 97
    [] c = "b" -> 98
    [] c = "c" -> 99
    [] c = "d" -> 100
    [] c = "e" -> 101
    [] c = "g" -> 103
    [] c = "i" -> 105
    [] c = "l" -> 108
    [] c = "m" -> 109
    [] c = "n" -> 110
    [] c = "r" -> 114
    [] c = "s" -> 115
    [] c = "u" -> 117

\* a < b for two strings (sequences of characters) as Array.prototype.sort
\* compares them without a compare function: code unit by code unit.
RECURSIVE LessThan(_, _)
LessThan(a, b) ==
  IF b = <<>> THEN FALSE
  ELSE IF a = <<>> THEN TRUE
  ELSE IF CodeUnit(Head(a)) # CodeUnit(Head(b)) THEN CodeUnit(Head(a)) < CodeUnit(Head(b))
  ELSE LessThan(Tail(a), Tail(b))

\* sorted with x put in its place.
RECURSIVE Insert(_, _)
Insert(x, sorted) ==
  IF sorted = <<>> THEN <<x>>
  ELSE IF LessThan(x, Head(sorted)) THEN <<x>> \o sorted
  ELSE <<Head(sorted)>> \o Insert(x, Tail(sorted))

\* names.sort()
RECURSIVE Sort(_)
Sort(names) == IF names = <<>> THEN <<>> ELSE Insert(Head(names), Sort(Tail(names)))

\* The names of the files of a directory: a.gml, b.gml, ...
FileLetters == <<"a", "b", "c", "d">>
DirName(k) == <<FileLetters[k], ".", "g", "m", "l">>

\* The orders fs.readdirSync may list n files in: it promises none.
ListingOrders(n) == {q \in [1..n -> 1..n] : \A j, k \in 1..n : j # k => q[j] # q[k]}

\* File f of a listing: its name, readable or not, and the elements of its document.
CliFileOf(flat, ends, readable, order, f) ==
  LET from == IF f = 1 THEN 0 ELSE ends[f - 1]
  IN [name |-> DirName(order[f]),
      readable |-> readable[f],
      elements |-> [n \in 1..(ends[f] - from) |->
                      [id |-> "bldg_" \o ToString(f) \o "_" \o ToString(n),
                       boundedBy |-> flat[from + n].boundedBy,
                       footprint |-> flat[from + n].footprint]]]

\* At most this many bldg:Building elements in the files of a listing.
MaxCliElements == 2

\* Listings of exactly n files holding up to MaxCliElements elements; a file that
\* cannot be read or parsed has no document.
CliListings(n) ==
  UNION {UNION {UNION {{[f \in 1..n |-> CliFileOf(flat, ends, readable, order, f)] :
                          readable \in {r \in [1..n -> BOOLEAN] :
                                          \A f \in 1..n :
                                             ~r[f] => ends[f] = (IF f = 1 THEN 0
                                                                 ELSE ends[f - 1])}}
                       : order \in ListingOrders(n)}
                : ends \in FileEnds(n, Len(flat))}
         : flat \in IF n = 0 THEN {<<>>} ELSE SeqUpTo(CliElements, MaxCliElements)}

CliInit ==
  /\ RunIdle
  /\ FixIdle
  /\ PosIdle
  /\ RestIdle
  /\ \/ cliPath = "missing" /\ cliFiles = <<>>
     \/ cliPath = "file" /\ cliFiles \in CliListings(1)
     \/ cliPath = "dir" /\ \E n \in 0..MaxFiles : cliFiles \in CliListings(n)
  /\ cliPc = "start"
  /\ cliK = 1
  /\ allBuildings = <<>>
  /\ returned = <<>>
  /\ cliErrors = <<>>
  /\ outputFile = NotWritten
  /\ cliExit = -1

\* ----------------------------------- tools/extract-citygml.ts: the extractor

\* The result extractBuildingGeometry gives for an element.
Extracted(element) == [id |-> element.id, footprint |-> element.footprint]

\* The loop over buildingsToProcess: an element with a bldg:boundedBy whose
\* extracted footprint is not empty is pushed.
ExtractedBuildings(elements) ==
  LET kept == SelectSeq(elements, LAMBDA e : e.boundedBy /\ Len(e.footprint) > 0)
  IN [k \in DOMAIN kept |-> Extracted(kept[k])]

\* extractFromCityGML as its caller sees it: the try block returns the buildings;
\* an error of readFileSync or parse is caught, logged, and [] is returned.
extractFromCityGML(file) ==
  IF file.readable
  THEN [threw |-> FALSE, value |-> ExtractedBuildings(file.elements)]
  ELSE [threw |-> FALSE, value |-> <<>>]

\* What extractFromCityGML writes with console.error during the call.
ExtractErrors(file, k) ==
  IF file.readable THEN <<>> ELSE <<[line |-> "Error parsing", file |-> k]>>

\* -------------------------------- tools/extract-citygml.ts: the command line

\* const stats = fs.statSync(inputDir) throws for a path that does not exist.
CliStatThrows ==
  /\ CliFrame
  /\ cliPc = "start"
  /\ cliPath = "missing"
  /\ cliPc' = "crashed"
  /\ cliExit' = 1
  /\ UNCHANGED <<cliPath, cliFiles, cliK, allBuildings, returned, cliErrors, outputFile>>

\* if (stats.isFile()) buildings = extractFromCityGML(inputDir);
CliSingleFile ==
  /\ CliFrame
  /\ cliPc = "start"
  /\ cliPath = "file"
  /\ LET r == extractFromCityGML(cliFiles[1])
     IN /\ returned' = Append(returned, r)
        /\ cliErrors' = cliErrors \o ExtractErrors(cliFiles[1], 1)
        /\ IF r.threw
           THEN /\ cliPc' = "crashed"
                /\ cliExit' = 1
                /\ UNCHANGED allBuildings
           ELSE /\ cliPc' = "output"
                /\ allBuildings' = r.value
                /\ UNCHANGED cliExit
  /\ UNCHANGED <<cliPath, cliFiles, cliK, outputFile>>

\* processDirectory: no .gml file is an error message and an empty result.
ProcessDirectoryBegin ==
  /\ CliFrame
  /\ cliPc = "start"
  /\ cliPath = "dir"
  /\ allBuildings' = <<>>
  /\ cliK' = 1
  /\ IF Len(cliFiles) = 0
     THEN /\ cliErrors' = Append(cliErrors, [line |-> "No .gml files found", file |-> 0])
          /\ cliPc' = "output"
     ELSE /\ cliPc' = "dirLoop"
          /\ UNCHANGED cliErrors
  /\ UNCHANGED <<cliPath, cliFiles, returned, outputFile, cliExit>>

\* A slip: the loop stops at the first file that yields no building.
ProcessDirectoryStepStopOnEmpty ==
  /\ CliFrame
  /\ cliPc = "dirLoop"
  /\ cliK <= Len(cliFiles)
  /\ LET r == extractFromCityGML(cliFiles[cliK])
     IN /\ returned' = Append(returned, r)
        /\ cliErrors' = cliErrors \o ExtractErrors(cliFiles[cliK], cliK)
        /\ allBuildings' = allBuildings \o r.value
        /\ cliK' = IF r.value = <<>> THEN Len(cliFiles) + 1 ELSE cliK + 1
  /\ UNCHANGED <<cliPath, cliFiles, cliPc, outputFile, cliExit>>

\* for (const file of gmlFiles) { try { allBuildings.push(...extractFromCityGML(..)) }
\*                                catch (error) { console.error(...) } }
ProcessDirectoryStep ==
  /\ CliFrame
  /\ cliPc = "dirLoop"
  /\ cliK <= Len(cliFiles)
  /\ LET r == extractFromCityGML(cliFiles[cliK])
     IN /\ returned' = Append(returned, r)
        /\ IF r.threw
           THEN /\ cliErrors' = (cliErrors \o ExtractErrors(cliFiles[cliK], cliK))
                                  \o <<[line |-> "Error processing", file |-> cliK]>>
                /\ UNCHANGED allBuildings
           ELSE /\ cliErrors' = cliErrors \o ExtractErrors(cliFiles[cliK], cliK)
                /\ allBuildings' = allBuildings \o r.value
  /\ cliK' = cliK + 1
  /\ UNCHANGED <<cliPath, cliFiles, cliPc, outputFile, cliExit>>

\* return allBuildings;
ProcessDirectoryReturn ==
  /\ CliFrame
  /\ cliPc = "dirLoop"
  /\ cliK > Len(cliFiles)
  /\ cliPc' = "output"
  /\ UNCHANGED <<cliPath, cliFiles, cliK, allBuildings, returned, cliErrors, outputFile,
                 cliExit>>

\* if (buildings.length > 0) { ...writeFileSync(outputFile, ...) }
\* else { console.error('No buildings were extracted. ...') }
\* The script then ends: the process exits with status 0.
CliOutput ==
  /\ CliFrame
  /\ cliPc = "output"
  /\ IF Len(allBuildings) > 0
     THEN /\ outputFile' = Written(allBuildings)
          /\ UNCHANGED cliErrors
     ELSE /\ cliErrors' = Append(cliErrors, [line |-> "No buildings were extracted", file |-> 0])
          /\ UNCHANGED outputFile
  /\ cliPc' = "done"
  /\ cliExit' = 0
  /\ UNCHANGED <<cliPath, cliFiles, cliK, allBuildings, returned>>

CliNext ==
  \/ CliStatThrows
  \/ CliSingleFile
  \/ ProcessDirectoryBegin
  \/ ProcessDirectoryStep
  \/ ProcessDirectoryReturn
  \/ CliOutput

SpecCli == CliInit /\ [][CliNext]_vars

\* C5: a run that extracts zero buildings from all of its input files ends as a
\* hard failure: the process terminates with a non-zero exit status.
C5_ZeroBuildingsExitsNonZero ==
  (cliPc = "done" /\ Len(allBuildings) = 0) => cliExit # 0

\* The buildings of the files 1..n of a listing, file after file.
RECURSIVE BuildingsOfFiles(_, _)
BuildingsOfFiles(listing, n) ==
  IF n = 0 THEN <<>>
  ELSE BuildingsOfFiles(listing, n - 1)
         \o (IF listing[n].readable
             THEN [k \in DOMAIN SelectSeq(listing[n].elements,
                                          LAMBDA e : e.boundedBy /\ e.footprint # <<>>) |->
                     LET e == SelectSeq(listing[n].elements,
                                        LAMBDA x : x.boundedBy /\ x.footprint # <<>>)[k]
                     IN [id |-> e.id, footprint |-> e.footprint]]
             ELSE <<>>)

\* C6: a file that yields zero buildings does not abort the batch: every later
\* file is still processed and the buildings of all other files are emitted.
C6_EmptyFileDoesNotAbort ==
  (cliPath = "dir" /\ cliPc \in {"output", "done"}) =>
     /\ Len(returned) = Len(cliFiles)
     /\ allBuildings = BuildingsOfFiles(cliFiles, Len(cliFiles))

C6_Witness ==
  /\ cliPath = "dir"
  /\ cliPc = "done"
  /\ Len(cliFiles) = 2
  /\ cliFiles[1].readable
  /\ returned[1].value = <<>>
  /\ returned[2].value # <<>>
  /\ outputFile.written

\* What a caller gets for a file that parses and holds no building.
EmptyFileReturn == [threw |-> FALSE, value |-> <<>>]

\* C7: when reading or parsing a file fails, the caller of the per-file extraction
\* gets a failure of that file, one it can tell from a parsed file that holds zero
\* buildings.
C7_FailureSurfacedToCaller ==
  \A k \in DOMAIN returned : ~cliFiles[k].readable => returned[k] # EmptyFileReturn

\* The files of a listing in ascending order of their names.
RECURSIVE SortedFiles(_)
SortedFiles(listing) ==
  IF listing = <<>> THEN <<>>
  ELSE LET rest == SortedFiles(Tail(listing))
           before == SelectSeq(rest, LAMBDA f : LessThan(f.name, Head(listing).name))
           after == SelectSeq(rest, LAMBDA f : ~LessThan(f.name, Head(listing).name))
       IN before \o <<Head(listing)>> \o after

\* C17: the files of a directory are processed one after another in ascending
\* file-name order, and the emitted list is the concatenation of the per-file
\* lists in that order.
C17_FilesInNameOrder ==
  (cliPath = "dir" /\ cliPc \in {"output", "done"}) =>
     /\ \A j, k \in DOMAIN returned :
           j < k => LessThan(cliFiles[j].name, cliFiles[k].name)
     /\ allBuildings = BuildingsOfFiles(SortedFiles(cliFiles), Len(cliFiles))

\* ------------------------------------------------- writeGLB on its own

\* Two vertices; the meshes are the vertex lists of 1..MaxVerts of them.
GlbVertices == {<<1, 0, 2>>, <<0, 3, 1>>}

\* The flat position buffer [x0, y0, z0, x1, ...] of a vertex list.
FlatPositions(vs) == [j \in 1..(3 * Len(vs)) |-> vs[((j - 1) \div 3) + 1][((j - 1) % 3) + 1]]

GlbMeshes ==
  {MeshOf(FlatPositions(vs), <<0, Len(vs) - 1, 0>>) :
     vs \in SeqUpTo(GlbVertices, MaxVerts) \ {<<>>}}

\* Every list of up to MaxGlbBuildings emitted buildings, with or without mesh.
GlbInputs ==
  {[k \in DOMAIN ms |->
      [id |-> "b_" \o ToString(k), footprint |-> FootprintTriangle, height_m |-> 5,
       mesh |-> ms[k]]] :
     ms \in SeqUpTo(GlbMeshes \cup {NoMesh}, MaxGlbBuildings)}

\* writeGLB is entered with any emitted list.
GlbInit ==
  /\ FixIdle
  /\ CliIdle
  /\ PosIdle
  /\ RestIdle
  /\ files = <<>>
  /\ pc = "writeGLB"
  /\ fi = 1
  /\ ci = 1
  /\ bi = 1
  /\ footprintToBuilding = EmptyMap
  /\ buildings = <<>>
  /\ all \in GlbInputs
  /\ geojson = NotWritten
  /\ idx = NoIndex
  /\ indexBin = NotWritten
  /\ idsJson = NotWritten
  /\ buildingsWithMeshes = <<>>
  /\ buildingCenters = <<>>
  /\ centeredPositions = <<>>
  /\ glb = NotWritten
  /\ exitCode = -1

GlbNext == GlbFilter \/ GlbCenter \/ GlbWrite

SpecGlb == GlbInit /\ [][GlbNext]_vars

\* The position in bs of the i-th building that carries a mesh.
NthMeshed(bs, i) ==
  CHOOSE k \in MeshedPositions(bs) : Cardinality({j \in MeshedPositions(bs) : j <= k}) = i

\* Coordinate `axis` (1, 2, 3) of the vertices of a flat position buffer.
AxisValues(positions, axis) ==
  [v \in 1..(Len(positions) \div 3) |-> positions[3 * (v - 1) + axis]]

\* The arithmetic mean of coordinate `axis` over the vertices.
MeanOf(positions, axis) ==
  Frac(SumSeq(AxisValues(positions, axis)), Len(AxisValues(positions, axis)))

RECURSIVE Digits(_)
Digits(n) ==
  IF n < 10 THEN <<ToString(n)>> ELSE Append(Digits(n \div 10), ToString(n % 10))

\* The characters of a position list: the numbers written in decimal, `sep`
\* between two of them, `lead` before the first and `trail` after the last.
RECURSIVE Join(_, _)
Join(nums, sep) ==
  IF nums = <<>> THEN <<>>
  ELSE IF Len(nums) = 1 THEN Digits(nums[1])
  ELSE Digits(Head(nums)) \o sep \o Join(Tail(nums), sep)

PosValues == {3, 12}
Separators == {<<" ">>, <<" ", "\n", " ">>}
Margins == {<<>>, <<"\n", " ">>}

PosInit ==
  /\ RunIdle
  /\ FixIdle
  /\ CliIdle
  /\ RestIdle
  /\ posFn \in {"posListToXYZ", "parsePosList"}
  /\ posNums \in SeqUpTo(PosValues, MaxNums)
  /\ \E sep \in Separators, lead \in Margins, trail \in Margins :
        text = lead \o Join(posNums, sep) \o trail
  /\ posPc = "start"
  /\ posA = <<>>
  /\ posI = 0
  /\ points = <<>>

\* \s of the regular expression, for the characters of the model.
IsSpace(c) == c \in {" ", "\n", "\t"}

RECURSIVE TrimStart(_)
TrimStart(cs) == IF cs # <<>> /\ IsSpace(Head(cs)) THEN TrimStart(Tail(cs)) ELSE cs

RECURSIVE TrimEnd(_)
TrimEnd(cs) ==
  IF cs # <<>> /\ IsSpace(cs[Len(cs)]) THEN TrimEnd(SubSeq(cs, 1, Len(cs) - 1)) ELSE cs

\* A slip: the text is split untrimmed.
Untrimmed(cs) == cs

\* String.prototype.trim
Trim(cs) == TrimEnd(TrimStart(cs))

\* String.prototype.split(/\s+/): the pieces between the maximal runs of white
\* space; a run at either end leaves an empty piece there, "" gives [""].
RECURSIVE SplitFrom(_, _, _)
SplitFrom(cs, piece, pieces) ==
  IF cs = <<>> THEN Append(pieces, piece)
  ELSE IF IsSpace(Head(cs))
       THEN SplitFrom(TrimStart(cs), <<>>, Append(pieces, piece))
       ELSE SplitFrom(Tail(cs), Append(piece, Head(cs)), pieces)

Split(cs) == SplitFrom(cs, <<>>, <<>>)

DigitValue(c) ==
  CASE c = "0" -> 0 [] c = "1" -> 1 [] c = "2" -> 2 [] c = "3" -> 3 [] c = "4" -> 4
    [] c = "5" -> 5 [] c = "6" -> 6 [] c = "7" -> 7 [] c = "8" -> 8 [] c = "9" -> 9

\* Number(piece) for a piece of decimal digits; Number("") is 0.
RECURSIVE Number(_)
Number(piece) ==
  IF piece = <<>> THEN 0
  ELSE 10 * Number(SubSeq(piece, 1, Len(piece) - 1)) + DigitValue(piece[Len(piece)])

\* text.trim().split(/\s+/).map(Number)
Numbers(cs) == LET pieces == Split(Trim(cs)) IN [k \in DOMAIN pieces |-> Number(pieces[k])]

\* parsePosList: if (!posList) return [];
ParseEmpty ==
  /\ PosFrame
  /\ posPc = "start"
  /\ posFn = "parsePosList"
  /\ text = <<>>
  /\ points' = <<>>
  /\ posPc' = "done"
  /\ UNCHANGED <<posFn, posNums, text, posA, posI>>

\* const a = text.trim().split(/\s+/).map(Number); const out = []; i = 0
PosSplit ==
  /\ PosFrame
  /\ posPc = "start"
  /\ posFn = "parsePosList" => text # <<>>
  /\ posA' = Numbers(text)
  /\ points' = <<>>
  /\ posI' = 0
  /\ posPc' = "loop"
  /\ UNCHANGED <<posFn, posNums, text>>

\* posListToXYZ: for (let i = 0; i + 2 < a.length; i += 3) out.push([a[i], a[i+1], a[i+2]]);
PosPush ==
  /\ PosFrame
  /\ posPc = "loop"
  /\ posFn = "posListToXYZ"
  /\ posI + 2 < Len(posA)
  /\ points' = Append(points, <<posA[posI + 1], posA[posI + 2], posA[posI + 3]>>)
  /\ posI' = posI + 3
  /\ UNCHANGED <<posFn, posNums, text, posPc, posA>>

PosReturn ==
  /\ PosFrame
  /\ posPc = "loop"
  /\ posFn = "posListToXYZ"
  /\ ~(posI + 2 < Len(posA))
  /\ posPc' = "done"
  /\ UNCHANGED <<posFn, posNums, text, posA, posI, points>>

\* parsePosList: for (let i = 0; i < coords.length; i += 3) { if (i + 2 < coords.length)
\*   { x, y, z = coords[i..i+2]; if (none is undefined) points.push([x, y, z]); } }
ParsePush ==
  /\ PosFrame
  /\ posPc = "loop"
  /\ posFn = "parsePosList"
  /\ posI < Len(posA)
  /\ points' = IF posI + 2 < Len(posA) THEN Append(points, <<posA[posI + 1], posA[posI + 2], posA[posI + 3]>>) ELSE points
  /\ posI' = posI + 3
  /\ UNCHANGED <<posFn, posNums, text, posPc, posA>>

ParseReturn ==
  /\ PosFrame
  /\ posPc = "loop"
  /\ posFn = "parsePosList"
  /\ ~(posI < Len(posA))
  /\ posPc' = "done"
  /\ UNCHANGED <<posFn, posNums, text, posA, posI, points>>

PosNext ==
  \/ ParseEmpty
  \/ PosSplit
  \/ PosPush
  \/ PosReturn
  \/ ParsePush
  \/ ParseReturn

SpecPos == PosInit /\ [][PosNext]_vars

\* C10: parsing a position list of n white-space separated numbers raises no error
\* (every point pushed is read from inside the array) and returns floor(n / 3) points, the i-th being (a[3i], a[3i+1], a[3i+2]);
\* the 1 or 2 numbers after the last full triple are discarded.
C10_PosListParsedInTriples ==
  /\ posPc = "done" =>
       /\ Len(points) = Len(posNums) \div 3
       /\ \A k \in DOMAIN points :
            points[k] = <<posNums[3 * (k - 1) + 1], posNums[3 * (k - 1) + 2], posNums[3 * (k - 1) + 3]>>
  /\ posPc = "loop" => posI % 3 = 0 /\ 3 * Len(points) <= Len(posA)

C10_Witness ==
  /\ posPc = "done"
  /\ Len(posNums) = 7
  /\ Len(points) = 2
  /\ points[1] # points[2]
  /\ IsSpace(text[1])

\* ------------------------- tools/extract-citygml.ts: one bldg:Building: input

\* At most this many bldg:boundedBy entries in a building.
MaxSurfaces == 2
\* At most this many polygons in a ground surface that mixes representations.
MaxMembers == 2

\* Position lists as split(/\s+/).map(Number) gives them: a closed ring at z = 5,
\* an open ring below zero, a ring of varying height, a ring of two points and a
\* list that ends before its first point is complete.
PosListClosed == <<0, 0, 5, 10, 0, 5, 10, 10, 5, 0, 0, 5>>
PosListLow == <<2, 1, -3, 6, 1, -3, 2, 4, -3>>
PosListHigh == <<0, 0, 20, 10, 0, 20, 10, 10, 25>>
PosListTwo == <<1, 1, 7, 5, 1, 7>>
PosListShort == <<4, 4>>
PosLists == {PosListClosed, PosListLow, PosListHigh, PosListTwo, PosListShort}

\* The three places extractPolygons looks for polygons in a surface element.
Representations == {"lod2MultiSurface", "Polygon", "MultiSurface"}

\* A polygon of a surface element: where it sits and the gml:posList of its exterior.
PolygonEntries == [rep : Representations, posList : PosLists]

\* The children of one surface element in document order.  A surface has one
\* bldg:lod2MultiSurface, one gml:Polygon and one gml:MultiSurface at most: the
\* polygons of one representation follow each other, and "Polygon" occurs once.
WellFormedGeometry(g) ==
  /\ Cardinality({k \in DOMAIN g : g[k].rep = "Polygon"}) <= 1
  /\ \A j, k \in DOMAIN g :
        (j < k /\ g[j].rep = g[k].rep) => \A m \in j..k : g[m].rep = g[j].rep

\* A surface element with a single gml:Polygon child.
SinglePolygon(posList) == <<[rep |-> "Polygon", posList |-> posList]>>

NoSurface == [wall |-> <<>>, roof |-> <<>>, ground |-> <<>>]

\* A bldg:boundedBy entry that holds one surface of one kind.
SurfacesOfOneKind ==
  {[NoSurface EXCEPT !.wall = SinglePolygon(p)] : p \in PosLists}
    \cup {[NoSurface EXCEPT !.roof = SinglePolygon(p)] : p \in PosLists}
    \cup {[NoSurface EXCEPT !.ground = SinglePolygon(p)] : p \in PosLists}

\* A bldg:boundedBy entry that holds a wall, a roof and a ground surface at once.
OptionalPolygon == {<<>>} \cup {SinglePolygon(p) : p \in PosLists}
SurfacesOfAllKinds == [wall : OptionalPolygon, roof : OptionalPolygon, ground : OptionalPolygon]

\* A bldg:boundedBy entry whose ground surface mixes representations.
MixedGroundSurfaces ==
  {[NoSurface EXCEPT !.ground = g] :
     g \in {h \in SeqUpTo(PolygonEntries, MaxMembers) : WellFormedGeometry(h)}}

\* The boundedBy lists of the model; the empty one is an element without bldg:boundedBy.
BoundedBys ==
  SeqUpTo(SurfacesOfOneKind, MaxSurfaces)
    \cup {<<s>> : s \in SurfacesOfAllKinds}
    \cup {<<s>> : s \in MixedGroundSurfaces}

GeoInit ==
  /\ RunIdle
  /\ FixIdle
  /\ CliIdle
  /\ PosIdle
  /\ DocIdle
  /\ DaIdle
  /\ BatchIdle
  /\ MoreIdle
  /\ geoBuilding \in [id : {"building_001"}, boundedBy : BoundedBys]
  /\ geoPc = "start"
  /\ geoS = 1
  /\ geoResult = NoResult
  /\ maxHeight = 0
  /\ geoEmitted = <<>>

\* ---------------- tools/extract-citygml.ts: extractPolygons, extractBuildingGeometry

\* parsePosList from `coords` on: a point for every i = 0, 3, 6.. with i + 2 < length.
RECURSIVE PointsFrom(_, _, _)
PointsFrom(coords, i, pts) ==
  IF i >= Len(coords) THEN pts
  ELSE PointsFrom(coords, i + 3,
         IF i + 2 < Len(coords)
         THEN Append(pts, <<coords[i + 1], coords[i + 2], coords[i + 3]>>)
         ELSE pts)

PointsOf(coords) == PointsFrom(coords, 0, <<>>)

\* The exterior rings of the members of one representation that parse to a point or more.
RingsOf(geometry, rep) ==
  LET entries == SelectSeq(geometry, LAMBDA e : e.rep = rep)
      rings == [k \in DOMAIN entries |-> PointsOf(entries[k].posList)]
  IN SelectSeq(rings, LAMBDA r : Len(r) > 0)

\* A slip: the direct gml:Polygon is looked at before bldg:lod2MultiSurface.
extractPolygonsPolygonFirst(geometry) ==
  RingsOf(geometry, "Polygon") \o RingsOf(geometry, "lod2MultiSurface")
    \o RingsOf(geometry, "MultiSurface")

\* extractPolygons: bldg:lod2MultiSurface first, then gml:Polygon, then gml:MultiSurface.
extractPolygons(geometry) ==
  RingsOf(geometry, "lod2MultiSurface") \o RingsOf(geometry, "Polygon")
    \o RingsOf(geometry, "MultiSurface")

\* for (const point of polygon) if (point[2] > maxHeight) maxHeight = point[2];
RECURSIVE RaisePoints(_, _)
RaisePoints(mh, polygon) ==
  IF polygon = <<>> THEN mh
  ELSE RaisePoints(IF Head(polygon)[3] > mh THEN Head(polygon)[3] ELSE mh, Tail(polygon))

\* A slip: maxHeight follows the last point seen, without the comparison.
RECURSIVE RaiseMaxHeightNoCompare(_, _)
RaiseMaxHeightNoCompare(mh, polygons) ==
  IF polygons = <<>> THEN mh
  ELSE RaiseMaxHeightNoCompare(Head(polygons)[Len(Head(polygons))][3], Tail(polygons))

\* for (const polygon of wallPolygons) ...: maxHeight after the polygons of a surface.
RECURSIVE RaiseMaxHeight(_, _)
RaiseMaxHeight(mh, polygons) ==
  IF polygons = <<>> THEN mh
  ELSE RaiseMaxHeight(RaisePoints(mh, Head(polygons)), Tail(polygons))

\* `building_${Math.random().toString(36).substr(2, 9)}`, for two values of Math.random.
RandomSuffixes == {"k3x9q2m1a", "7f0zp4wd2"}
SynthesizedId(r) == "building_" \o r

\* const result = { id: building['@_gml:id'] || `building_...`, footprint: [], height: 0, .. }
NewResult(building, r) ==
  [NoResult EXCEPT !.id = IF building.id # "" THEN building.id ELSE SynthesizedId(r)]

\* One turn of for (const surface of surfaces) on [result, maxHeight].
SurfaceStep(st, surface) ==
  LET wallPolygons == extractPolygons(surface.wall)
      roofPolygons == extractPolygons(surface.roof)
      groundPolygons == extractPolygons(surface.ground)
  IN [result |-> [st.result EXCEPT !.walls = @ \o wallPolygons,
                                   !.roof = @ \o roofPolygons,
                                   !.ground = @ \o groundPolygons],
      maxHeight |-> RaiseMaxHeight(RaiseMaxHeight(st.maxHeight, wallPolygons), roofPolygons)]

\* firstGround.map(point => [point[0] ?? 0, point[1] ?? 0])
DropZ(ring) == [k \in DOMAIN ring |-> <<ring[k][1], ring[k][2]>>]

\* The end of extractBuildingGeometry: the footprint from result.ground[0], the height.
FinishResult(st) ==
  [st.result EXCEPT !.footprint = IF Len(st.result.ground) > 0
                                  THEN DropZ(st.result.ground[1])
                                  ELSE @,
                    !.height = st.maxHeight]

\* if (actualBuilding['bldg:boundedBy']) { const extracted = extractBuildingGeometry(..)
GeoBegin ==
  /\ GeoFrame
  /\ geoPc = "start"
  /\ IF geoBuilding.boundedBy = <<>>
     THEN /\ geoPc' = "done"
          /\ UNCHANGED <<geoResult, maxHeight>>
     ELSE /\ \E r \in RandomSuffixes : geoResult' = NewResult(geoBuilding, r)
          /\ maxHeight' = 0
          /\ geoPc' = "surfaces"
  /\ UNCHANGED <<geoBuilding, geoS, geoEmitted>>

\* for (const surface of surfaces) { walls, roof, ground, maxHeight }
GeoSurface ==
  /\ GeoFrame
  /\ geoPc = "surfaces"
  /\ geoS <= Len(geoBuilding.boundedBy)
  /\ LET st == SurfaceStep([result |-> geoResult, maxHeight |-> maxHeight],
                           geoBuilding.boundedBy[geoS])
     IN /\ geoResult' = st.result
        /\ maxHeight' = st.maxHeight
  /\ geoS' = geoS + 1
  /\ UNCHANGED <<geoBuilding, geoPc, geoEmitted>>

\* ... result.footprint, result.height; return result;
\* if (extracted.footprint && extracted.footprint.length > 0) buildings.push(extracted);
GeoFinish ==
  /\ GeoFrame
  /\ geoPc = "surfaces"
  /\ geoS > Len(geoBuilding.boundedBy)
  /\ geoResult' = FinishResult([result |-> geoResult, maxHeight |-> maxHeight])
  /\ geoEmitted' = IF Len(geoResult'.footprint) > 0 THEN <<geoResult'>> ELSE <<>>
  /\ geoPc' = "done"
  /\ UNCHANGED <<geoBuilding, geoS, maxHeight>>

GeoNext == GeoBegin \/ GeoSurface \/ GeoFinish

SpecGeo == GeoInit /\ [][GeoNext]_vars

\* --------------------------------------- claims about one extracted building

GeoDone == geoPc = "done"

\* The polygons of a surface element, of any kind.
EntriesOf(surface) == Range(surface.wall) \cup Range(surface.roof) \cup Range(surface.ground)

\* The z of every point of every ring of every surface of the building.
AllZ(building) ==
  UNION {UNION {{pt[3] : pt \in Range(PointsOf(e.posList))} : e \in EntriesOf(surface)}
         : surface \in Range(building.boundedBy)}

\* C11: the height of an emitted building is (highest z - lowest z) over every
\* point of every ring of every surface of the building, wall, roof and ground alike.
C11_HeightIsZRange ==
  GeoDone =>
    \A k \in DOMAIN geoEmitted :
       geoEmitted[k].height = MaxOf(AllZ(geoBuilding)) - MinOf(AllZ(geoBuilding))

\* C12: the height of every emitted building is non-negative, also when every z
\* of the building is negative or the building has no wall or roof surface; the
\* running maximum never goes below zero on the way.
C12_HeightNonNegative ==
  /\ maxHeight >= 0
  /\ geoResult.height >= 0
  /\ \A k \in DOMAIN geoEmitted : geoEmitted[k].height >= 0

\* An emitted building with a wall whose every z is negative.
C12_Witness ==
  /\ GeoDone
  /\ Len(geoEmitted) = 1
  /\ \E s \in DOMAIN geoBuilding.boundedBy : geoBuilding.boundedBy[s].wall # <<>>
  /\ \A z \in AllZ(geoBuilding) : z < 0
  /\ geoEmitted[1].height = 0

\* C13: the footprint of every emitted building is open: its first point differs
\* from its last point, the closing point of the source ring having been removed.
C13_FootprintOpen ==
  GeoDone =>
    \A k \in DOMAIN geoEmitted :
       LET footprint == geoEmitted[k].footprint
       IN footprint[1] # footprint[Len(footprint)]

\* The ground polygons of a building as <<boundedBy entry, position in the surface>>.
GroundEntries(building) ==
  UNION {{<<s, e>> : e \in DOMAIN building.boundedBy[s].ground}
         : s \in DOMAIN building.boundedBy}

GroundEntry(building, a) == building.boundedBy[a[1]].ground[a[2]]

\* Document order: by boundedBy entry, then by position in the surface element.
DocumentBefore(building, a, b) == a[1] < b[1] \/ (a[1] = b[1] /\ a[2] < b[2])

RepRank(rep) ==
  CASE rep = "lod2MultiSurface" -> 1
    [] rep = "Polygon" -> 2
    [] rep = "MultiSurface" -> 3

\* The order polygons are collected in: by boundedBy entry; inside one surface
\* the members of bldg:lod2MultiSurface, the gml:Polygon, the members of gml:MultiSurface.
CollectedBefore(building, a, b) ==
  LET ra == RepRank(GroundEntry(building, a).rep)
      rb == RepRank(GroundEntry(building, b).rep)
  IN a[1] < b[1] \/ (a[1] = b[1] /\ (ra < rb \/ (ra = rb /\ a[2] < b[2])))

\* C14 as stated: the footprint of a returned building is the exterior ring of its
\* first ground polygon in document order with z dropped, point for point.
C14_FootprintIsFirstGroundPolygon ==
  GeoDone =>
    \A k \in DOMAIN geoEmitted :
       \E a \in GroundEntries(geoBuilding) :
          /\ \A b \in GroundEntries(geoBuilding) \ {a} : DocumentBefore(geoBuilding, a, b)
          /\ geoEmitted[k].footprint = DropZ(PointsOf(GroundEntry(geoBuilding, a).posList))

\* The ground polygons whose position list holds a complete point.
NonEmptyGroundEntries(building) ==
  {a \in GroundEntries(building) : Len(GroundEntry(building, a).posList) >= 3}

\* C14 amended: the footprint of a returned building is the exterior ring, with z
\* dropped point for point, of the first ground polygon in collection order among
\* those whose position list holds a complete point.
C14_FootprintIsFirstCollectedRing ==
  GeoDone =>
    \A k \in DOMAIN geoEmitted :
       \E a \in NonEmptyGroundEntries(geoBuilding) :
          /\ \A b \in NonEmptyGroundEntries(geoBuilding) \ {a} :
                CollectedBefore(geoBuilding, a, b)
          /\ LET coords == GroundEntry(geoBuilding, a).posList
                 footprint == geoEmitted[k].footprint
             IN /\ Len(footprint) = Len(coords) \div 3
                /\ \A j \in DOMAIN footprint :
                      footprint[j] = <<coords[3 * j - 2], coords[3 * j - 1]>>

\* A ground surface with a gml:Polygon ahead of a bldg:lod2MultiSurface member:
\* the footprint is the member's ring.
C14_Witness ==
  /\ GeoDone
  /\ Len(geoEmitted) = 1
  /\ Len(geoBuilding.boundedBy) = 1
  /\ geoBuilding.boundedBy[1].ground =
       <<[rep |-> "Polygon", posList |-> PosListLow],
         [rep |-> "lod2MultiSurface", posList |-> PosListClosed]>>
  /\ geoEmitted[1].footprint = <<<<0, 0>>, <<10, 0>>, <<10, 10>>, <<0, 0>>>>

\* C15: every emitted building has a footprint of at least 3 points; a ring with
\* fewer points is never used as a footprint.
C15_FootprintAtLeastThreePoints ==
  GeoDone => \A k \in DOMAIN geoEmitted : Len(geoEmitted[k].footprint) >= 3

\* ------------------- tools/extract-citygml.ts: extractFromCityGML: the document

\* At most this many bldg:Building elements in a document.
MaxDocBuildings == 3
\* At most this many core:cityObjectMember elements in a document.
MaxCityObjectMembers == 2

GroundAndRoof ==
  <<[wall |-> <<>>, roof |-> SinglePolygon(PosListHigh), ground |-> SinglePolygon(PosListClosed)]>>
WallOnly == <<[NoSurface EXCEPT !.wall = SinglePolygon(PosListHigh)]>>

\* The kinds of bldg:Building element: with a gml:id or without, with a ground
\* polygon, with a bldg:boundedBy that has none, without bldg:boundedBy.
BuildingKinds ==
  {[hasId |-> TRUE, boundedBy |-> GroundAndRoof],
   [hasId |-> FALSE, boundedBy |-> GroundAndRoof],
   [hasId |-> TRUE, boundedBy |-> WallOnly],
   [hasId |-> TRUE, boundedBy |-> <<>>]}

\* The bldg:Building elements of member m: the stretch of the flat list between
\* the ends of member m - 1 and of member m; gml:id values differ in a document.
MemberOf(flat, ends, m) ==
  LET from == IF m = 1 THEN 0 ELSE ends[m - 1]
  IN [n \in 1..(ends[m] - from) |->
        [id |-> IF flat[from + n].hasId
                THEN "bldg_" \o ToString(m) \o "_" \o ToString(n)
                ELSE "",
         boundedBy |-> flat[from + n].boundedBy]]

\* Every document: up to MaxCityObjectMembers members (one without a
\* bldg:Building holds another kind of city object) over up to MaxDocBuildings
\* buildings.
Documents ==
  UNION {UNION {{[m \in 1..n |-> MemberOf(flat, ends, m)] : ends \in FileEnds(n, Len(flat))}
                : flat \in IF n = 0 THEN {<<>>} ELSE SeqUpTo(BuildingKinds, MaxDocBuildings)}
         : n \in 0..MaxCityObjectMembers}

DocInit ==
  /\ RunIdle
  /\ FixIdle
  /\ CliIdle
  /\ PosIdle
  /\ GeoIdle
  /\ DaIdle
  /\ BatchIdle
  /\ MoreIdle
  /\ docMembers \in Documents
  /\ docPc = "start"
  /\ docK = 1
  /\ buildingsToProcess = <<>>
  /\ docBuildings = <<>>

\* ------------------------------ tools/extract-citygml.ts: extractFromCityGML

\* A node of the parsed tree that buildingsToProcess can hold.
BuildingNode(building) == [tag |-> "bldg:Building", building |-> building, buildings |-> <<>>]
MemberNode(member) == [tag |-> "core:cityObjectMember", building |-> NoBuilding, buildings |-> member]

\* buildingsToProcess from buildingMembers: an array of members as it is; a
\* single member gives its bldg:Building elements, or itself when it has none.
ToProcess(members) ==
  IF Len(members) = 0 THEN <<>>
  ELSE IF Len(members) > 1 THEN [m \in DOMAIN members |-> MemberNode(members[m])]
  ELSE IF Len(members[1]) > 0 THEN [n \in DOMAIN members[1] |-> BuildingNode(members[1][n])]
  ELSE <<MemberNode(members[1])>>

\* let actualBuilding = building; if (building['bldg:Building']) actualBuilding = ...
\* The value is the bldg:boundedBy actualBuilding shows: a member without a
\* building and an array of buildings show none.
ActualBuilding(node) ==
  IF node.tag = "bldg:Building" THEN node.building
  ELSE IF Len(node.buildings) = 1 THEN node.buildings[1]
  ELSE NoBuilding

RECURSIVE SurfacesFrom(_, _, _)
SurfacesFrom(st, surfaces, k) ==
  IF k > Len(surfaces) THEN st
  ELSE SurfacesFrom(SurfaceStep(st, surfaces[k]), surfaces, k + 1)

\* extractBuildingGeometry, r being what Math.random gives.
extractBuildingGeometry(building, r) ==
  IF building.boundedBy = <<>> THEN NewResult(building, r)
  ELSE FinishResult(SurfacesFrom([result |-> NewResult(building, r), maxHeight |-> 0],
                                 building.boundedBy, 1))

\* const buildings = []; ... buildingsToProcess = ...
DocBegin ==
  /\ DocFrame
  /\ docPc = "start"
  /\ buildingsToProcess' = ToProcess(docMembers)
  /\ docBuildings' = <<>>
  /\ docK' = 1
  /\ docPc' = "loop"
  /\ UNCHANGED docMembers

\* for (const building of buildingsToProcess) { ... buildings.push(extracted) }
DocStep ==
  /\ DocFrame
  /\ docPc = "loop"
  /\ docK <= Len(buildingsToProcess)
  /\ LET actualBuilding == ActualBuilding(buildingsToProcess[docK])
     IN IF actualBuilding.boundedBy # <<>>
        THEN \E r \in RandomSuffixes :
               LET extracted == extractBuildingGeometry(actualBuilding, r)
               IN docBuildings' = IF Len(extracted.footprint) > 0
                                  THEN Append(docBuildings, extracted)
                                  ELSE docBuildings
        ELSE UNCHANGED docBuildings
  /\ docK' = docK + 1
  /\ UNCHANGED <<docMembers, docPc, buildingsToProcess>>

\* return buildings;
DocReturn ==
  /\ DocFrame
  /\ docPc = "loop"
  /\ docK > Len(buildingsToProcess)
  /\ docPc' = "done"
  /\ UNCHANGED <<docMembers, docK, buildingsToProcess, docBuildings>>

DocNext == DocBegin \/ DocStep \/ DocReturn

SpecDoc == DocInit /\ [][DocNext]_vars

\* C16: the buildings returned by one run have pairwise distinct ids: two
\* buildings that get a synthesized identifier never get the same one.
C16_IdsPairwiseDistinct ==
  docPc = "done" =>
    \A j, k \in DOMAIN docBuildings : j # k => docBuildings[j].id # docBuildings[k].id

\* The bldg:Building elements of a document in document order.
RECURSIVE BuildingsOfMembers(_, _)
BuildingsOfMembers(members, n) ==
  IF n = 0 THEN <<>> ELSE BuildingsOfMembers(members, n - 1) \o members[n]

\* Whether an element has a bldg:boundedBy with a non-empty ground polygon.
HasGroundPolygon(building) ==
  \E s \in DOMAIN building.boundedBy :
     \E e \in DOMAIN building.boundedBy[s].ground :
        Len(building.boundedBy[s].ground[e].posList) >= 3

\* C19: extractFromCityGML returns exactly one entry, in document order and with
\* its gml:id, for every bldg:Building element with a non-empty ground polygon,
\* however the elements are spread over core:cityObjectMember elements.
C19_OneEntryPerBuilding ==
  docPc = "done" =>
    LET expected == SelectSeq(BuildingsOfMembers(docMembers, Len(docMembers)), HasGroundPolygon)
    IN /\ Len(docBuildings) = Len(expected)
       /\ \A k \in DOMAIN expected :
             expected[k].id # "" => docBuildings[k].id = expected[k].id

\* ------------------------------ tools/extract-citygml.ts: processAllDAFiles

\* The delivery areas are numbered 1..MaxDA.
MaxDA == 10

\* DA{number}_3D_Buildings_Merged.gml
DASuffix ==
  <<"_", "3", "D", "_", "B", "u", "i", "l", "d", "i", "n", "g", "s", "_",
    "M", "e", "r", "g", "e", "d", ".", "g", "m", "l">>
DAName(n) == <<"D", "A">> \o Digits(n) \o DASuffix

\* The numbers of a set in ascending order.
RECURSIVE Ascending(_)
Ascending(S) ==
  IF S = {} THEN <<>>
  ELSE LET m == CHOOSE x \in S : \A y \in S : x <= y
       IN <<m>> \o Ascending(S \ {m})

\* The .gml files of ./data/complete as fs.readdirSync lists them.
DAListing(present) == [k \in 1..Cardinality(present) |-> DAName(Ascending(present)[k])]

\* The file of delivery area n: a document with one building.
DAFile(n) ==
  [name |-> DAName(n),
   readable |-> TRUE,
   elements |-> <<[id |-> "DA" \o ToString(n) \o "_1", boundedBy |-> TRUE,
                   footprint |-> FootprintSquare]>>]

\* The file of ./data/complete that has the given name.
DAFileNamed(present, name) == DAFile(CHOOSE n \in present : DAName(n) = name)

DaInit ==
  /\ RunIdle
  /\ FixIdle
  /\ CliIdle
  /\ PosIdle
  /\ GeoIdle
  /\ DocIdle
  /\ BatchIdle
  /\ MoreIdle
  /\ daDirExists \in BOOLEAN
  /\ daPresent \in IF daDirExists THEN SUBSET (1..MaxDA) ELSE {{}}
  /\ daFiles = <<>>
  /\ daPc = "start"
  /\ daI = 0
  /\ daProcessed = <<>>
  /\ daBuildings = <<>>

\* if (!fs.existsSync(daDir)) return allBuildings;
\* const daFiles = files.filter(...).sort(); if (daFiles.length === 0) return allBuildings;
DaBegin ==
  /\ DaFrame
  /\ daPc = "start"
  /\ daBuildings' = <<>>
  /\ daI' = 0
  /\ IF ~daDirExists
     THEN /\ daPc' = "done"
          /\ UNCHANGED daFiles
     ELSE /\ daFiles' = Sort(DAListing(daPresent))
          /\ daPc' = IF Len(daFiles') = 0 THEN "done" ELSE "loop"
  /\ UNCHANGED <<daDirExists, daPresent, daProcessed>>

\* for (let i = 0; i < daFiles.length; i++) { ... allBuildings.push(...buildings) }
DaStep ==
  /\ DaFrame
  /\ daPc = "loop"
  /\ daI < Len(daFiles)
  /\ LET file == daFiles[daI + 1]
         r == extractFromCityGML(DAFileNamed(daPresent, file))
     IN /\ daProcessed' = Append(daProcessed, file)
        /\ daBuildings' = IF r.threw THEN daBuildings ELSE daBuildings \o r.value
  /\ daI' = daI + 1
  /\ UNCHANGED <<daDirExists, daPresent, daFiles, daPc>>

\* return allBuildings;
DaReturn ==
  /\ DaFrame
  /\ daPc = "loop"
  /\ daI >= Len(daFiles)
  /\ daPc' = "done"
  /\ UNCHANGED <<daDirExists, daPresent, daFiles, daI, daProcessed, daBuildings>>

DaNext == DaBegin \/ DaStep \/ DaReturn

SpecDa == DaInit /\ [][DaNext]_vars

\* C18: processAllDAFiles processes the delivery-area files in ascending DA
\* number, whatever set of them is in the directory.
C18_AscendingDANumber ==
  daPc = "done" =>
    daProcessed = [k \in 1..Cardinality(daPresent) |-> DAName(Ascending(daPresent)[k])]

\* ------------------------------------------ scripts/sample.js: processAllFiles

\* At most this many files listed for the sampler's batch driver.
MaxBatchFiles == 3

\* What happens to one file: createSampleFromFile samples buildings from it,
\* samples none, samples none and the removal of the empty output then throws,
\* or throws itself.
Outcomes == {"sampled", "empty", "emptyUnlinkThrows", "throws"}

BatchInit ==
  /\ RunIdle
  /\ FixIdle
  /\ CliIdle
  /\ PosIdle
  /\ GeoIdle
  /\ DocIdle
  /\ DaIdle
  /\ MoreIdle
  /\ gmlFiles \in SeqUpTo(Outcomes, MaxBatchFiles)
  /\ skipOnError \in BOOLEAN
  /\ batchPc = "loop"
  /\ batchI = 0
  /\ attempted = <<>>
  /\ processedCount = 0
  /\ failedCount = 0
  /\ statusEmojis = <<>>
  /\ batchExit = -1

\* 'x'.repeat(n)
RECURSIVE Repeat(_, _)
Repeat(str, n) == IF n = 0 THEN "" ELSE str \o Repeat(str, n - 1)

\* printSummary, for what it changes: a mark for the files skipped after an error.
printSummary(emojis, processed, failed) ==
  IF Len(gmlFiles) > processed + failed
  THEN Append(emojis, Repeat("skipped", Len(gmlFiles) - processed - failed))
  ELSE emojis

\* A slip: the catch block goes on to the next file whatever the flag says.
BatchAttemptAlwaysSkips ==
  /\ BatchFrame
  /\ batchPc = "loop"
  /\ batchI < Len(gmlFiles)
  /\ attempted' = Append(attempted, batchI + 1)
  /\ LET outcome == gmlFiles[batchI + 1]
     IN IF outcome = "sampled"
        THEN /\ processedCount' = processedCount + 1
             /\ statusEmojis' = Append(statusEmojis, "sampled")
             /\ batchI' = batchI + 1
             /\ UNCHANGED <<failedCount, batchPc, batchExit>>
        ELSE IF outcome = "empty"
        THEN /\ processedCount' = processedCount + 1
             /\ statusEmojis' = Append(statusEmojis, "empty")
             /\ batchI' = batchI + 1
             /\ UNCHANGED <<failedCount, batchPc, batchExit>>
        ELSE LET processed == IF outcome = "emptyUnlinkThrows"
                              THEN processedCount + 1 ELSE processedCount
                 emojis == (IF outcome = "emptyUnlinkThrows"
                            THEN Append(statusEmojis, "empty") ELSE statusEmojis)
                             \o <<"failed">>
             IN /\ processedCount' = processed
                /\ failedCount' = failedCount + 1
                /\ /\ statusEmojis' = emojis
                   /\ batchI' = batchI + 1
                   /\ UNCHANGED <<batchPc, batchExit>>
  /\ UNCHANGED <<gmlFiles, skipOnError>>

\* One turn of the loop: try { await createSampleFromFile(...) ... }
\* catch { failedCount++; if (skipOnError) continue; else { printSummary(); process.exit(1) } }
BatchAttempt ==
  /\ BatchFrame
  /\ batchPc = "loop"
  /\ batchI < Len(gmlFiles)
  /\ attempted' = Append(attempted, batchI + 1)
  /\ LET outcome == gmlFiles[batchI + 1]
     IN IF outcome = "sampled"
        THEN /\ processedCount' = processedCount + 1
             /\ statusEmojis' = Append(statusEmojis, "sampled")
             /\ batchI' = batchI + 1
             /\ UNCHANGED <<failedCount, batchPc, batchExit>>
        ELSE IF outcome = "empty"
        THEN /\ processedCount' = processedCount + 1
             /\ statusEmojis' = Append(statusEmojis, "empty")
             /\ batchI' = batchI + 1
             /\ UNCHANGED <<failedCount, batchPc, batchExit>>
        ELSE LET processed == IF outcome = "emptyUnlinkThrows"
                              THEN processedCount + 1 ELSE processedCount
                 emojis == (IF outcome = "emptyUnlinkThrows"
                            THEN Append(statusEmojis, "empty") ELSE statusEmojis)
                             \o <<"failed">>
             IN /\ processedCount' = processed
                /\ failedCount' = failedCount + 1
                /\ IF skipOnError
                   THEN /\ statusEmojis' = emojis
                        /\ batchI' = batchI + 1
                        /\ UNCHANGED <<batchPc, batchExit>>
                   ELSE /\ statusEmojis' = printSummary(emojis, processed, failedCount + 1)
                        /\ batchPc' = "exited"
                        /\ batchExit' = 1
                        /\ UNCHANGED batchI
  /\ UNCHANGED <<gmlFiles, skipOnError>>

\* After the loop: printSummary(); return { processedCount, failedCount, totalFiles }.
BatchFinish ==
  /\ BatchFrame
  /\ batchPc = "loop"
  /\ batchI >= Len(gmlFiles)
  /\ statusEmojis' = printSummary(statusEmojis, processedCount, failedCount)
  /\ batchPc' = "returned"
  /\ UNCHANGED <<gmlFiles, skipOnError, batchI, attempted, processedCount, failedCount,
                 batchExit>>

BatchNext == BatchAttempt \/ BatchFinish

SpecBatch == BatchInit /\ [][BatchNext]_vars

Fails(outcome) == outcome \in {"emptyUnlinkThrows", "throws"}

\* The files before the first failing one and that one; every file if none fails.
UpToFirstFailure(listed) ==
  IF \E k \in DOMAIN listed : Fails(listed[k])
  THEN CHOOSE k \in DOMAIN listed :
         Fails(listed[k]) /\ \A j \in 1..(k - 1) : ~Fails(listed[j])
  ELSE Len(listed)

\* C20: with --skip-on-error every listed file is attempted exactly once, in
\* order, also after failures; without it no file after the first failing one is
\* attempted and the process exits with status 1.
C20_SkipOnErrorOrStop ==
  /\ attempted = [k \in 1..Len(attempted) |-> k]
  /\ (batchPc # "loop" /\ skipOnError) =>
        /\ batchPc = "returned"
        /\ Len(attempted) = Len(gmlFiles)
        /\ batchExit = -1
  /\ (batchPc # "loop" /\ ~skipOnError) =>
        /\ Len(attempted) = UpToFirstFailure(gmlFiles)
        /\ (\E k \in DOMAIN gmlFiles : Fails(gmlFiles[k])) =>
              batchPc = "exited" /\ batchExit = 1

\* With the flag: the first of three files throws and the other two are attempted.
C20_Witness ==
  /\ skipOnError
  /\ batchPc = "returned"
  /\ Len(gmlFiles) = 3
  /\ gmlFiles[1] = "throws"
  /\ attempted = <<1, 2, 3>>
  /\ failedCount = 1
  /\ processedCount = 2

\* ==========================================================================
\* scripts/sample.js: createSampleFromFile, the streaming sampler of one file
\* ==========================================================================

\* The sampler selects out of every group of this many buildings.
GroupSize == 100
\* The tolerance of pointInPolygon.
EPSILON == 100

\* At most this many buildings in a sampled file.
MaxSampleBuildings == 102
\* Math.random() is a fraction n / RandomResolution with n in 0..RandomResolution-1.
RandomResolution == 7

Abs(n) == IF n < 0 THEN -n ELSE n
Min(a, b) == IF a <= b THEN a ELSE b
Max(a, b) == IF a >= b THEN a ELSE b

\* ---- the lines of a file, by what processLine looks for in them
Line(kind, id, coords) == [kind |-> kind, id |-> id, coords |-> coords]
\* a line of the header, before the first cityObjectMember
HeaderLine == Line("header", -1, <<>>)
\* '<core:cityObjectMember>'
MemberLine == Line("member", -1, <<>>)
\* '<bldg:Building gml:id="...">'
BuildingLine(id) == Line("building", id, <<>>)
\* '<bldg:boundedBy>': an opening bldg: tag alone on its line
OpenLine == Line("open", -1, <<>>)
\* '</bldg:boundedBy>', '</bldg:Building>': a closing bldg: tag alone on its line
CloseLine == Line("close", -1, <<>>)
\* '<bldg:measuredHeight uom="ft">12</bldg:measuredHeight>': both on one line
InlineLine == Line("inline", -1, <<>>)
\* '<gml:posList>x y z ...</gml:posList>' on one line
PosListLine(coords) == Line("posList", -1, coords)
\* '<gml:posList>' with its numbers on the lines that follow
PosListOpenLine == Line("posListOpen", -1, <<>>)
\* any other line
OtherLine == Line("other", -1, <<>>)

\* line.includes('<core:cityObjectMember>') || line.includes('<cityObjectMember>')
IncludesMember(line) == line.kind = "member"
\* line.includes('<bldg:Building gml:id=')
IncludesBuilding(line) == line.kind = "building"
\* line.includes('<bldg:')
IncludesBldg(line) == line.kind \in {"building", "open", "inline"}
\* line.includes('</bldg:')
IncludesBldgEnd(line) == line.kind \in {"close", "inline"}
\* line.includes('<gml:posList') || line.includes('<gml:pos')
IncludesPos(line) == line.kind \in {"posList", "posListOpen"}

\* The stand-in for REGIONS_EPSG2263.manhattan and for a --polygon argument:
\* polygons in the projected plane.
REGIONS_EPSG2263 == <<<<0, 0>>, <<1000, 0>>, <<1000, 1000>>, <<0, 1000>>>>
CustomPolygon == <<<<0, 0>>, <<2000, 0>>, <<0, 2000>>>>

\* Position lists (x y z triples): a point inside both polygons, one outside both.
InsideXYZ == <<500, 500, 10>>
OutsideXYZ == <<5000, 5000, 10>>

\* The lines of a building after its opening line, closing tag included.
Inside == <<OtherLine, PosListLine(InsideXYZ \o InsideXYZ), CloseLine>>
Outside == <<OtherLine, PosListLine(OutsideXYZ \o OutsideXYZ), CloseLine>>
GroundOutsideRoofInside ==
  <<OpenLine, PosListLine(OutsideXYZ \o OutsideXYZ), CloseLine,
    OpenLine, PosListLine(OutsideXYZ \o InsideXYZ), CloseLine, CloseLine>>
NoPositions == <<OtherLine, CloseLine>>
SplitPosList == <<PosListOpenLine, OtherLine, PosListLine(InsideXYZ), CloseLine>>
HeightThenInside == <<InlineLine, PosListLine(InsideXYZ), CloseLine>>

\* A file repeats one of these runs of buildings.
FileShapes ==
  { <<Inside>>, <<Outside>>, <<GroundOutsideRoofInside>>, <<NoPositions, Inside>>,
    <<SplitPosList, Outside>>, <<HeightThenInside, Inside>>, <<Outside, Inside>> }

\* The random sources: the k-th call of Math.random() returns
\* ((a * k + b) % RandomResolution) / RandomResolution.
Seeds ==
  { [a |-> 0, b |-> 0], [a |-> 0, b |-> RandomResolution - 1], [a |-> 3, b |-> 1] }

Percents == {1, 3, 100}

\* The body of the k-th building of a file (k from 0).
ShapeOf(file, k) == file.shapes[(k % Len(file.shapes)) + 1]

\* The lines the k-th building of a file arrives as.
LinesOf(file, k) ==
  (IF k = 0 THEN <<HeaderLine, HeaderLine>> ELSE <<>>)
    \o <<MemberLine, BuildingLine(k)>> \o ShapeOf(file, k) \o <<OtherLine>>

\* extractCoordinates: the X, Y of every triple of a one-line position list,
\* null (the empty sequence here; the code never returns an empty array) otherwise.
extractCoordinates(line) ==
  IF line.kind = "posList"
  THEN [k \in 1..((Len(line.coords) + 2) \div 3) |->
          <<line.coords[3 * k - 2], line.coords[3 * k - 1]>>]
  ELSE <<>>

\* Every point of every one-line position list of a building.
PointsOfBuilding(body) ==
  UNION {Range(extractCoordinates(body[k])) : k \in DOMAIN body}

\* extractBoundedByEnvelope found no gml:boundedBy in the first megabyte.
NoEnvelope == [found |-> FALSE, minX |-> 0, minY |-> 0, maxX |-> 0, maxY |-> 0]

\* The envelope of a file: the bounding box of its points, or none.
EnvelopeOf(shapes) ==
  LET pts == UNION {PointsOfBuilding(shapes[k]) : k \in DOMAIN shapes}
  IN IF pts = {} THEN NoEnvelope
     ELSE [found |-> TRUE,
           minX |-> MinOf({q[1] : q \in pts}), minY |-> MinOf({q[2] : q \in pts}),
           maxX |-> MaxOf({q[1] : q \in pts}), maxY |-> MaxOf({q[2] : q \in pts})]

\* The gml:id of the k-th building of a file: its position, or one id for two
\* neighbours, or one id for all.
IdOf(file, k) ==
  IF file.ids = "pairs" THEN k \div 2 ELSE IF file.ids = "same" THEN 0 ELSE k

\* The lines the k-th building of a file with such ids arrives as.
SampleLinesOf(file, k) ==
  LET lines == LinesOf(file, k)
  IN [i \in DOMAIN lines |->
        IF IncludesBuilding(lines[i]) THEN BuildingLine(IdOf(file, k)) ELSE lines[i]]

SampleFiles ==
  { [n |-> n, shapes |-> shapes, percent |-> percent, filter |-> filter, seed |-> seed,
     ids |-> "distinct",
     envelope |-> IF declared THEN EnvelopeOf(shapes) ELSE NoEnvelope] :
      n \in {0, 1, MaxSampleBuildings}, shapes \in FileShapes, percent \in Percents,
      filter \in {"none", "region", "polygon"}, seed \in Seeds, declared \in BOOLEAN }

SmpInit ==
  /\ RunIdle
  /\ FixIdle
  /\ CliIdle
  /\ PosIdle
  /\ GeoIdle
  /\ DocIdle
  /\ DaIdle
  /\ BatchIdle
  /\ ArgIdle
  /\ ChkIdle
  /\ FltIdle
  /\ TsIdle
  /\ GmlIdle
  /\ smpFile \in SampleFiles
  /\ smpPc = "begin"
  /\ selectedIndicesSet = {}
  /\ smp = <<>>
  /\ smpOut = <<>>

\* ---- sampling
\* the k-th value of Math.random(), as a numerator over RandomResolution
MathRandom(seed, k) == (seed.a * k + seed.b) % RandomResolution

SwapOverwrites(indices, i, j) == [indices EXCEPT ![i] = indices[j]]
\* [indices[i], indices[j]] = [indices[j], indices[i]]
Swap(indices, i, j) == [indices EXCEPT ![i] = indices[j], ![j] = indices[i]]

\* The Fisher-Yates loop for i from first down to last: the swaps of the upper
\* half of the steps, then those of the lower half.  (The halves keep the
\* evaluation shallow; each result is bound as the element of a set, so that TLC
\* holds its value before the next step starts.)
RECURSIVE ShuffleFrom(_, _, _, _)
ShuffleFrom(indices, first, last, seed) ==
  IF first < last THEN indices
  ELSE IF first = last
  THEN LET i == first
           j == (MathRandom(seed, GroupSize - 1 - i) * (i + 1)) \div RandomResolution
       IN Swap(indices, i, j)
  ELSE LET mid == (first + last) \div 2
       IN CHOOSE shuffled \in {ShuffleFrom(upper, mid, last, seed) :
                                 upper \in {ShuffleFrom(indices, first, mid + 1, seed)}} : TRUE

Shuffle(seed) == ShuffleFrom([k \in 0..(GroupSize - 1) |-> k], GroupSize - 1, 1, seed)

\* new Set(indices.slice(0, p)) with p = Math.max(1, Math.floor(percent))
SelectedIndices(percent, seed) ==
  LET p == Max(1, percent)
      indices == Shuffle(seed)
  IN {indices[k] : k \in 0..(Min(p, GroupSize) - 1)}

\* ---- the filter
Boundary(file) == IF file.filter = "region" THEN REGIONS_EPSG2263 ELSE CustomPolygon

isEnvelopeOutsideFilter(envelope, file) ==
  IF ~envelope.found THEN FALSE
  ELSE IF file.filter = "none" THEN FALSE
  ELSE LET boundary == Boundary(file)
           minX == MinOf({boundary[k][1] : k \in DOMAIN boundary})
           maxX == MaxOf({boundary[k][1] : k \in DOMAIN boundary})
           minY == MinOf({boundary[k][2] : k \in DOMAIN boundary})
           maxY == MaxOf({boundary[k][2] : k \in DOMAIN boundary})
       IN \/ envelope.maxX < minX
          \/ envelope.minX > maxX
          \/ envelope.maxY < minY
          \/ envelope.minY > maxY

\* The ray-casting loop of pointInPolygon from vertex i on (j is the vertex before i).
RECURSIVE pointInPolygonFrom(_, _, _, _)
pointInPolygonFrom(point, polygon, i, inside) ==
  IF i > Len(polygon) THEN inside
  ELSE LET j == IF i = 1 THEN Len(polygon) ELSE i - 1
           x == point[1]
           y == point[2]
           xi == polygon[i][1]
           yi == polygon[i][2]
           xj == polygon[j][1]
           yj == polygon[j][2]
       IN IF Abs(yj - yi) < EPSILON
          THEN IF /\ Abs(y - yi) < EPSILON
                  /\ x >= Min(xi, xj) - EPSILON
                  /\ x <= Max(xi, xj) + EPSILON
               THEN TRUE
               ELSE pointInPolygonFrom(point, polygon, i + 1, inside)
          ELSE IF /\ (yi > y + EPSILON) # (yj > y + EPSILON)
                  /\ x < xi + ((xj - xi) * (y - yi)) \div (yj - yi) + EPSILON
               THEN pointInPolygonFrom(point, polygon, i + 1, ~inside)
               ELSE pointInPolygonFrom(point, polygon, i + 1, inside)

pointInPolygon(point, polygon) == pointInPolygonFrom(point, polygon, 1, FALSE)

\* isInRegion, isInCustomPolygon: coords.some(coord => pointInPolygon(coord, polygon))
isInPolygon(coords, polygon) ==
  \E k \in DOMAIN coords : pointInPolygon(coords[k], polygon)

\* ---- processLine
\* The locals of createSampleFromFile at its start.
SampleLocals ==
  [ headerComplete |-> FALSE, inBuilding |-> FALSE, buildingDepth |-> 0,
    currentBuilding |-> <<>>, buildingCount |-> 0, selectedBuildings |-> <<>>,
    counter |-> 0, currentBuildingInBoundary |-> FALSE, buildingCoordinates |-> <<>>,
    skipBuildingLines |-> FALSE, buildingLines |-> <<>>, outputStream |-> <<>> ]

\* The reset at the end of a building.
BuildingReset(st) ==
  [st EXCEPT !.currentBuilding = <<>>, !.inBuilding = FALSE,
             !.currentBuildingInBoundary = FALSE, !.buildingCoordinates = <<>>,
             !.skipBuildingLines = FALSE]

\* The building just closed goes to buildingLines when it is the last one selected
\* and, with a filter, in the boundary.
BuildingComplete(st, filtering) ==
  LET last == Len(st.selectedBuildings)
      included ==
        /\ last > 0
        /\ st.selectedBuildings[last] = st.currentBuilding[2]
        /\ (~filtering \/ st.currentBuildingInBoundary)
  IN BuildingReset(
       IF included
       THEN [st EXCEPT !.buildingLines = @ \o st.currentBuilding \o <<MemberLine>>]
       ELSE st)

\* A line of a building that is kept: pushed, then the depth is followed.
KeepLine(st, line, filtering) ==
  LET pushed == [st EXCEPT !.currentBuilding = Append(@, line)]
  IN IF IncludesBldg(line) /\ ~IncludesBldgEnd(line)
     THEN [pushed EXCEPT !.buildingDepth = @ + 1]
     ELSE IF IncludesBldgEnd(line)
     THEN IF pushed.buildingDepth - 1 = 0
          THEN BuildingComplete([pushed EXCEPT !.buildingDepth = @ - 1], filtering)
          ELSE [pushed EXCEPT !.buildingDepth = @ - 1]
     ELSE pushed

\* A line of a building that is being skipped: only the depth is followed.
SkipLine(st, line) ==
  IF IncludesBldg(line) /\ ~IncludesBldgEnd(line)
  THEN [st EXCEPT !.buildingDepth = @ + 1]
  ELSE IF IncludesBldgEnd(line)
  THEN IF st.buildingDepth - 1 = 0
       THEN BuildingReset([st EXCEPT !.buildingDepth = @ - 1])
       ELSE [st EXCEPT !.buildingDepth = @ - 1]
  ELSE st

processLine(st, line, file, selected) ==
  LET filtering == file.filter # "none"
  IN IF ~st.headerComplete /\ IncludesMember(line)
     THEN [st EXCEPT !.headerComplete = TRUE]
     ELSE IF ~st.headerComplete
     THEN [st EXCEPT !.outputStream = Append(@, line)]
     ELSE IF ~st.inBuilding /\ IncludesBuilding(line)
     THEN LET positionInGroup == st.counter % GroupSize
          IN [st EXCEPT !.inBuilding = TRUE, !.buildingDepth = 1,
                        !.currentBuilding = <<MemberLine, line>>,
                        !.buildingCount = @ + 1,
                        !.currentBuildingInBoundary = FALSE,
                        !.buildingCoordinates = <<>>,
                        !.skipBuildingLines = FALSE,
                        !.selectedBuildings =
                           IF positionInGroup \in selected THEN Append(@, line) ELSE @,
                        !.counter = @ + 1]
     ELSE IF st.inBuilding
     THEN IF st.skipBuildingLines THEN SkipLine(st, line)
          ELSE IF filtering /\ st.buildingCoordinates = <<>> /\ IncludesPos(line)
          THEN LET coords == extractCoordinates(line)
                   inTargetArea == isInPolygon(coords, Boundary(file))
                   found == [st EXCEPT !.buildingCoordinates = coords]
               IN IF Len(coords) > 0
                  THEN IF ~inTargetArea
                       THEN [found EXCEPT !.currentBuildingInBoundary = FALSE,
                                          !.skipBuildingLines = TRUE]
                       ELSE KeepLine([found EXCEPT !.currentBuildingInBoundary = TRUE],
                                     line, filtering)
                  ELSE KeepLine(found, line, filtering)
          ELSE KeepLine(st, line, filtering)
     ELSE st

RECURSIVE processLines(_, _, _, _)
processLines(st, lines, file, selected) ==
  IF lines = <<>> THEN st
  ELSE processLines(processLine(st, Head(lines), file, selected), Tail(lines), file, selected)

\* ---- the run
\* Up to the creation of the promise: the envelope check, the output stream,
\* the choice of the selected positions.
SampleBegin ==
  /\ smpPc = "begin"
  /\ IF smpFile.filter # "none" /\ isEnvelopeOutsideFilter(smpFile.envelope, smpFile)
     THEN /\ smpPc' = "returned"
          /\ smpOut' = [buildingCount |-> 0, selectedCount |-> 0]
          /\ UNCHANGED <<selectedIndicesSet, smp>>
     ELSE /\ smpPc' = "reading"
          /\ selectedIndicesSet' = SelectedIndices(smpFile.percent, smpFile.seed)
          /\ smp' = SampleLocals
          /\ UNCHANGED smpOut
  /\ UNCHANGED smpFile
  /\ SmpFrame

\* fileStream 'data': the lines of the next building.
SampleData ==
  /\ smpPc = "reading"
  /\ smp.buildingCount < smpFile.n
  /\ smp' = processLines(smp, SampleLinesOf(smpFile, smp.buildingCount), smpFile,
                          selectedIndicesSet)
  /\ UNCHANGED <<smpFile, smpPc, selectedIndicesSet, smpOut>>
  /\ SmpFrame

\* fileStream 'end': the selected buildings and the footer are written, the
\* output stream is ended.
SampleEnd ==
  /\ smpPc = "reading"
  /\ smp.buildingCount = smpFile.n
  /\ smp' = [smp EXCEPT !.outputStream = @ \o smp.buildingLines \o <<Line("footer", -1, <<>>)>>]
  /\ smpPc' = "ended"
  /\ UNCHANGED <<smpFile, selectedIndicesSet, smpOut>>
  /\ SmpFrame

\* outputStream 'finish': the promise resolves.
SampleFinish ==
  /\ smpPc = "ended"
  /\ smpPc' = "resolved"
  /\ smpOut' = [originalBuildings |-> smp.buildingCount,
                sampleBuildings |-> Cardinality({k \in DOMAIN smp.buildingLines :
                                                   IncludesBuilding(smp.buildingLines[k])})]
  /\ UNCHANGED <<smpFile, selectedIndicesSet, smp>>
  /\ SmpFrame

\* fileStream 'error': the promise rejects; nothing reads the locals any more.
SampleError ==
  /\ smpPc = "reading"
  /\ smpPc' = "rejected"
  /\ smp' = <<>>
  /\ UNCHANGED <<smpFile, selectedIndicesSet, smpOut>>
  /\ SmpFrame

SmpNext == SampleBegin \/ SampleData \/ SampleEnd \/ SampleFinish \/ SampleError

SpecSample == SmpInit /\ [][SmpNext]_vars

\* ---- claims about the selection
SmpRunning == smpPc \in {"reading", "ended", "resolved"}

\* The buildings selected so far, by their position in the file (from 0).
SampleSelected == {smp.selectedBuildings[k].id : k \in DOMAIN smp.selectedBuildings}

\* p = max(1, floor(pct))
SampleP == Max(1, smpFile.percent)

\* C21: for a percentage in 1..100 the sampler holds, for the whole file, a set of
\* exactly p = max(1, floor(pct)) residues modulo 100; the building at position i
\* is selected iff i mod 100 is in the set; so every 100 consecutive buildings hold
\* exactly p selected ones, and with pct = 100 every building is selected.
C21_SelectsPOfEveryHundred ==
  SmpRunning =>
    /\ selectedIndicesSet \subseteq 0..(GroupSize - 1)
    /\ Cardinality(selectedIndicesSet) = SampleP
    /\ \A i \in 0..(smp.counter - 1) :
         i \in SampleSelected <=> (i % GroupSize) \in selectedIndicesSet
    /\ \A s \in 0..(smp.counter - GroupSize) :
         Cardinality({i \in s..(s + GroupSize - 1) : i \in SampleSelected}) = SampleP
    /\ smpFile.percent = GroupSize => SampleSelected = 0..(smp.counter - 1)

\* A file of more than 100 buildings was sampled at 3 percent through to the end,
\* and buildings of its second hundred were selected.
C21_Witness ==
  /\ smpPc = "resolved"
  /\ smpFile.percent = 3
  /\ smp.counter > GroupSize + 1
  /\ \E i \in SampleSelected : i >= GroupSize

\* ---- claims about the filter
\* The buildings whose lines went to the output, by their position in the file.
SampleWritten ==
  {smp.outputStream[k].id : k \in {n \in DOMAIN smp.outputStream :
                                     IncludesBuilding(smp.outputStream[n])}}

\* Some point of some position list of the building at position i is in the boundary.
SomePointInBoundary(i) ==
  \E point \in PointsOfBuilding(ShapeOf(smpFile, i)) :
     pointInPolygon(point, Boundary(smpFile))

\* C22: with a region or a polygon filter, a selected building is written to the
\* output iff at least one point of one of its position lists is inside the boundary.
C22_WrittenIffSomePointInside ==
  (smpPc = "resolved" /\ smpFile.filter # "none") =>
    \A i \in SampleSelected : i \in SampleWritten <=> SomePointInBoundary(i)

\* ==========================================================================
\* scripts/argparse.ts (getArg, parseRange, makeArgGetter) and the argument
\* handling of scripts/sample.js.  A string is the sequence of its characters.
\* ==========================================================================

\* At most this many command-line arguments.
MaxArgs == 2
\* At most this many characters in the string handed to parseRange, and at most
\* this many digits in a row in it.
MaxRangeChars == 5
MaxRangeDigits == 2

\* String.prototype.startsWith
StartsWith(s, prefix) == Len(s) >= Len(prefix) /\ SubSeq(s, 1, Len(prefix)) = prefix

\* String.prototype.includes, for one character
Includes(s, c) == \E k \in DOMAIN s : s[k] = c

\* String.prototype.split, for a separator of one character
RECURSIVE SplitOnFrom(_, _, _, _)
SplitOnFrom(s, c, piece, pieces) ==
  IF s = <<>> THEN Append(pieces, piece)
  ELSE IF Head(s) = c
       THEN SplitOnFrom(Tail(s), c, <<>>, Append(pieces, piece))
       ELSE SplitOnFrom(Tail(s), c, Append(piece, Head(s)), pieces)

SplitOn(s, c) == SplitOnFrom(s, c, <<>>, <<>>)

IsDigit(c) == c \in {"0", "1", "2", "3", "4", "5", "6", "7", "8", "9"}

\* ---- values: undefined, a string, a number, NaN, an array of numbers, a boolean
Value(t, s, n, a, b) == [t |-> t, s |-> s, n |-> n, a |-> a, b |-> b]
VUndefined == Value("undefined", <<>>, 0, <<>>, FALSE)
VString(s) == Value("string", s, 0, <<>>, FALSE)
VNumber(n) == Value("number", <<>>, n, <<>>, FALSE)
VNaN == Value("NaN", <<>>, 0, <<>>, FALSE)
VArray(a) == Value("array", <<>>, 0, a, FALSE)
VBoolean(b) == Value("boolean", <<>>, 0, <<>>, b)

\* ---- how a call ends
Returns(value) == [kind |-> "returns", value |-> value, status |-> 0]
\* an ArgsError leaves the function
ThrowsArgsError == [kind |-> "ArgsError", value |-> VUndefined, status |-> 0]
\* another error leaves the function
Throws == [kind |-> "throws", value |-> VUndefined, status |-> 0]
\* process.exit(status)
Exits(status) == [kind |-> "exit", value |-> VUndefined, status |-> status]

\* Number(s) for the strings of the model: an optional '-' and decimal digits,
\* white space around them; Number("") is 0; anything else is NaN.
ToNumber(s) ==
  LET t == Trim(s)
      digits == IF t # <<>> /\ Head(t) = "-" THEN Tail(t) ELSE t
  IN IF t = <<>> THEN VNumber(0)
     ELSE IF digits # <<>> /\ \A k \in DOMAIN digits : IsDigit(digits[k])
     THEN VNumber(IF Head(t) = "-" THEN 0 - Number(digits) ELSE Number(digits))
     ELSE VNaN

\* The last index of the run of digits that starts at i.
RunEnd(s, i) == MaxOf({j \in i..Len(s) : \A k \in i..j : IsDigit(s[k])})

\* parseInt(s): white space, an optional '-', then the digits the string goes on
\* with; NaN when there is none.
parseInt(s) ==
  LET t == TrimStart(s)
      negative == t # <<>> /\ Head(t) = "-"
      u == IF negative THEN Tail(t) ELSE t
  IN IF u = <<>> \/ ~IsDigit(u[1]) THEN VNaN
     ELSE LET n == Number(SubSeq(u, 1, RunEnd(u, 1)))
          IN VNumber(IF negative THEN 0 - n ELSE n)

\* ---- names and arguments
NameIdx == <<"i", "d", "x">>
NameIndex == <<"i", "n", "d", "e", "x">>
NameI == <<"i">>
NamePct == <<"p", "c", "t">>
NamePercent == <<"p", "e", "r", "c", "e", "n", "t">>
NameP == <<"p">>

\* argNameToFlag
argNameToFlag(argName) == (IF Len(argName) = 1 THEN <<"-">> ELSE <<"-", "-">>) \o argName

\* The arguments a command line is made of:
\* --idx  -i  --idx=1  -i=1=3  --idx=  --pct  -p  1,3  3  -1
ArgPool ==
  { argNameToFlag(NameIdx), argNameToFlag(NameI),
    argNameToFlag(NameIdx) \o <<"=", "1">>, argNameToFlag(NameI) \o <<"=", "1", "=", "3">>,
    argNameToFlag(NameIdx) \o <<"=">>,
    argNameToFlag(NamePct), argNameToFlag(NameP),
    <<"1", ",", "3">>, <<"3">>, <<"-", "1">> }

ArgVectors == SeqUpTo(ArgPool, MaxArgs)

\* The characters of the strings handed to parseRange.
RangeChars == {"1", "3", ",", "-", " ", "a"}
RangeStrings ==
  { s \in SeqUpTo(RangeChars, MaxRangeChars) :
      \A i \in 1..(Len(s) - MaxRangeDigits) :
        \E k \in i..(i + MaxRangeDigits) : s[k] \notin {"1", "3"} }

\* ---- getArg (scripts/argparse.ts)
getArg(args, name, aliases) ==
  LET allNames == <<name>> \o aliases
      flags == [k \in DOMAIN allNames |-> argNameToFlag(allNames[k])]
      found == {k \in DOMAIN args :
                  \E f \in DOMAIN flags :
                     args[k] = flags[f] \/ StartsWith(args[k], flags[f] \o <<"=">>)}
  IN IF found = {} THEN VUndefined
     ELSE LET arg == args[MinOf(found)]
              index == MinOf({k \in DOMAIN args : args[k] = arg})
          IN IF Includes(arg, "=") THEN VString(SplitOn(arg, "=")[2])
             ELSE IF index < Len(args) /\ ~StartsWith(args[index + 1], <<"-">>)
             THEN VString(args[index + 1])
             ELSE VBoolean(TRUE)

\* ---- getArg (scripts/sample.js): the names are tried in turn, each as --name
RECURSIVE getArgOfSample(_, _, _)
getArgOfSample(args, allNames, defaultValue) ==
  IF allNames = <<>> THEN defaultValue
  ELSE LET flag == <<"-", "-">> \o Head(allNames)
           found == {k \in DOMAIN args :
                       args[k] = flag \/ StartsWith(args[k], flag \o <<"=">>)}
       IN IF found = {} THEN getArgOfSample(args, Tail(allNames), defaultValue)
          ELSE LET arg == args[MinOf(found)]
                   index == MinOf({k \in DOMAIN args : args[k] = arg})
               IN IF Includes(arg, "=") THEN VString(SplitOn(arg, "=")[2])
                  ELSE IF index < Len(args) /\ ~StartsWith(args[index + 1], <<"-">>)
                  THEN VString(args[index + 1])
                  ELSE VBoolean(TRUE)

\* What sample.js makes of its arguments: the percentage and the DA numbers, or
\* an exit with status 1, or the TypeError of indexArg.split on the value true.
SampleRuns(processAll, daNumbers, percent) ==
  [status |-> "runs", processAll |-> processAll, daNumbers |-> daNumbers, percent |-> percent]
SampleStops(status) ==
  [status |-> status, processAll |-> FALSE, daNumbers |-> <<>>, percent |-> 0]

SampleArguments(args) ==
  LET indexArg == getArgOfSample(args, <<NameIdx, NameIndex, NameI>>, VUndefined)
      percentArg == getArgOfSample(args, <<NamePct, NamePercent, NameP>>, VString(<<"1">>))
      processAll == indexArg.t = "undefined" \/ (indexArg.t = "string" /\ indexArg.s = <<>>)
      percent == IF percentArg.t = "string" THEN parseInt(percentArg.s) ELSE VNaN
      parts == SplitOn(indexArg.s, ",")
      parsed == [k \in DOMAIN parts |-> parseInt(Trim(parts[k]))]
  IN IF percent.t = "NaN" \/ percent.n < 1 \/ percent.n > 100 THEN SampleStops("exit 1")
     ELSE IF processAll THEN SampleRuns(TRUE, <<>>, percent.n)
     ELSE IF indexArg.t = "boolean" THEN SampleStops("TypeError")
     ELSE IF \E k \in DOMAIN parsed : parsed[k].t = "NaN" THEN SampleStops("exit 1")
     ELSE SampleRuns(FALSE, [k \in DOMAIN parsed |-> parsed[k].n], percent.n)

\* ---- parseRange
\* numbers.add(n) on a Set, kept in insertion order
AddNumber(numbers, n) ==
  IF \E k \in DOMAIN numbers : numbers[k] = n THEN numbers ELSE Append(numbers, n)

ExpandRangeExclusive(numbers, lower, upper) ==
  numbers \o SelectSeq([k \in 1..(upper - lower) |-> lower + k - 1],
                       LAMBDA n : \A k \in DOMAIN numbers : numbers[k] # n)
\* for (let i = lower; i <= upper; i++) numbers.add(i)
ExpandRange(numbers, lower, upper) ==
  numbers \o SelectSeq([k \in 1..(upper - lower + 1) |-> lower + k - 1],
                       LAMBDA n : \A k \in DOMAIN numbers : numbers[k] # n)

\* trimmedRange.match(/(?<lower>\d+)-(?<upper>\d+)/): the leftmost run of digits
\* that a '-' and a digit follow; the run is lower, the digits after '-' upper.
RangeMatch(s) ==
  LET starts == {i \in DOMAIN s :
                   /\ IsDigit(s[i])
                   /\ RunEnd(s, i) + 2 <= Len(s)
                   /\ s[RunEnd(s, i) + 1] = "-"
                   /\ IsDigit(s[RunEnd(s, i) + 2])}
  IN IF starts = {} THEN [found |-> FALSE, lower |-> 0, upper |-> 0]
     ELSE LET i == MinOf(starts)
              e == RunEnd(s, i)
          IN [found |-> TRUE, lower |-> Number(SubSeq(s, i, e)),
              upper |-> Number(SubSeq(s, e + 2, RunEnd(s, e + 2)))]

\* The for-loop of parseRange over the entries.
RECURSIVE ParseEntries(_, _)
ParseEntries(ranges, numbers) ==
  IF ranges = <<>> THEN [thrown |-> FALSE, numbers |-> numbers]
  ELSE LET trimmedRange == Trim(Head(ranges))
           num == ToNumber(trimmedRange)
           rangeMatch == RangeMatch(trimmedRange)
       IN IF trimmedRange = <<>> THEN ParseEntries(Tail(ranges), numbers)
          ELSE IF num.t # "NaN" THEN ParseEntries(Tail(ranges), AddNumber(numbers, num.n))
          ELSE IF rangeMatch.found /\ rangeMatch.lower <= rangeMatch.upper
          THEN ParseEntries(Tail(ranges),
                            ExpandRange(numbers, rangeMatch.lower, rangeMatch.upper))
          ELSE [thrown |-> TRUE, numbers |-> <<>>]

parseRange(arg) ==
  LET ranges == SplitOn(Trim(arg), ",")
  IN IF Len(ranges) = 0 \/ (Len(ranges) = 1 /\ Trim(ranges[1]) = <<>>)
     THEN ThrowsArgsError
     ELSE LET entries == ParseEntries(ranges, <<>>)
          IN IF entries.thrown \/ entries.numbers = <<>> THEN ThrowsArgsError
             ELSE Returns(VArray(entries.numbers))

\* ---- makeArgGetter
\* A getter: its parse function and getterOpts.default (undefined when not given).
getStringArg == [parse |-> "String", default |-> VUndefined]
getRangeArg == [parse |-> "parseRange", default |-> VUndefined]
getNumberArg == [parse |-> "Number", default |-> VUndefined]
getBoolArg == [parse |-> "true", default |-> VBoolean(FALSE)]
\* makeArgGetter<string>(String, { default: 'default' })
getTestArg == [parse |-> "String", default |-> VString(<<"d">>)]
Getters == {getStringArg, getRangeArg, getNumberArg, getBoolArg, getTestArg}

\* opts: required, default, and what validate does when it is there
ArgOpts ==
  [required : BOOLEAN, default : {VUndefined, VNumber(1)},
   validate : {"none", "accepts", "ArgsError", "Error"}]

\* parse(argString)
Parse(parse, argString) ==
  CASE parse = "String" -> Returns(VString(argString))
    [] parse = "Number" -> Returns(ToNumber(argString))
    [] parse = "parseRange" -> parseRange(argString)
    [] parse = "true" -> Returns(VBoolean(TRUE))

AbsentRequiredFirst(getter, opts) ==
  IF opts.required THEN ThrowsArgsError
  ELSE IF opts.default.t # "undefined" THEN Returns(opts.default)
  ELSE Returns(getter.default)
\* the branch argValue === undefined
Absent(getter, opts) ==
  IF opts.default.t # "undefined" THEN Returns(opts.default)
  ELSE IF opts.required THEN ThrowsArgsError
  ELSE Returns(getter.default)

\* The try block of the getter.
GetterTry(args, getter, name, aliases, opts) ==
  LET argValue == getArg(args, name, aliases)
  IN CASE argValue.t = "string" ->
            LET value == Parse(getter.parse, argValue.s)
            IN IF value.kind # "returns" THEN value
               ELSE IF opts.validate = "ArgsError" THEN ThrowsArgsError
               ELSE IF opts.validate = "Error" THEN Throws
               ELSE value
       [] argValue.t = "boolean" ->
            IF getter.default.t = "boolean"
            THEN Parse(getter.parse, <<"t", "r", "u", "e">>)
            ELSE ThrowsArgsError
       [] argValue.t = "undefined" -> Absent(getter, opts)

\* The getter: an ArgsError is caught and ends the process with status 1.
Getter(args, getter, name, aliases, opts) ==
  LET tried == GetterTry(args, getter, name, aliases, opts)
  IN IF tried.kind = "ArgsError" THEN Exits(1) ELSE tried

\* ---- the calls
NoGetter == [parse |-> "", default |-> VUndefined]
NoOpts == [required |-> FALSE, default |-> VUndefined, validate |-> "none"]
Call(fn, name, aliases, getter, opts) ==
  [fn |-> fn, name |-> name, aliases |-> aliases, getter |-> getter, opts |-> opts]

ArgInit ==
  /\ RunIdle
  /\ FixIdle
  /\ CliIdle
  /\ PosIdle
  /\ GeoIdle
  /\ DocIdle
  /\ DaIdle
  /\ BatchIdle
  /\ SmpIdle
  /\ ChkIdle
  /\ FltIdle
  /\ TsIdle
  /\ GmlIdle
  /\ \/ /\ argCall \in {Call("getArg", NameIdx, <<NameIndex, NameI>>, NoGetter, NoOpts),
                        Call("getArg", NamePct, <<NamePercent, NameP>>, NoGetter, NoOpts),
                        Call("sample", <<>>, <<>>, NoGetter, NoOpts)}
        /\ argv \in ArgVectors
     \/ /\ argCall \in {Call("getter", NameIdx, <<NameIndex, NameI>>, getter, opts) :
                          getter \in Getters, opts \in ArgOpts}
        /\ argv \in ArgVectors
     \/ /\ argCall = Call("parseRange", NameIdx, <<NameIndex, NameI>>, NoGetter, NoOpts)
        /\ argv \in RangeStrings
  /\ argPc = "called"
  /\ argOut = <<>>

CallGetArg ==
  /\ argPc = "called"
  /\ argCall.fn = "getArg"
  /\ argOut' = getArg(argv, argCall.name, argCall.aliases)
  /\ argPc' = "returned"
  /\ UNCHANGED <<argv, argCall>>
  /\ ArgFrame

CallGetter ==
  /\ argPc = "called"
  /\ argCall.fn = "getter"
  /\ argOut' = Getter(argv, argCall.getter, argCall.name, argCall.aliases, argCall.opts)
  /\ argPc' = "returned"
  /\ UNCHANGED <<argv, argCall>>
  /\ ArgFrame

CallParseRange ==
  /\ argPc = "called"
  /\ argCall.fn = "parseRange"
  /\ argOut' = parseRange(argv)
  /\ argPc' = "returned"
  /\ UNCHANGED <<argv, argCall>>
  /\ ArgFrame

CallSampleArguments ==
  /\ argPc = "called"
  /\ argCall.fn = "sample"
  /\ argOut' = SampleArguments(argv)
  /\ argPc' = "returned"
  /\ UNCHANGED <<argv, argCall>>
  /\ ArgFrame

ArgNext == CallGetArg \/ CallGetter \/ CallParseRange \/ CallSampleArguments

SpecArgs == ArgInit /\ [][ArgNext]_vars

\* ---- claims about the arguments
ArgReturned(fn) == argPc = "returned" /\ argCall.fn = fn

\* The command line with -i written --idx and -p written --pct.
LongFlags(args) ==
  [k \in DOMAIN args |->
     IF args[k] = argNameToFlag(NameI) THEN argNameToFlag(NameIdx)
     ELSE IF args[k] = argNameToFlag(NameP) THEN argNameToFlag(NamePct)
     ELSE args[k]]

\* Every -i and every -p of the command line is followed by a value.
ShortFlagsWithValues(args) ==
  \A k \in DOMAIN args :
     args[k] \in {argNameToFlag(NameI), argNameToFlag(NameP)} =>
       k < Len(args) /\ ~StartsWith(args[k + 1], <<"-">>)

\* C23: the sampler takes -i for --idx and -p for --pct: every command line gives
\* the DA numbers and the percentage it gives with the long flags in their place.
C23_ShortFlagsAreAliases ==
  (ArgReturned("sample") /\ ShortFlagsWithValues(argv)) =>
    argOut = SampleArguments(LongFlags(argv))

\* ---- parseRange
AllDigits(s) == s # <<>> /\ \A k \in DOMAIN s : IsDigit(s[k])

\* lower-upper with lower <= upper
IsRangeEntry(e) ==
  \E d \in DOMAIN e :
     /\ e[d] = "-"
     /\ AllDigits(SubSeq(e, 1, d - 1))
     /\ AllDigits(SubSeq(e, d + 1, Len(e)))
     /\ Number(SubSeq(e, 1, d - 1)) <= Number(SubSeq(e, d + 1, Len(e)))

\* The numbers an entry denotes, in order.
Denoted(e) ==
  IF AllDigits(e) THEN <<Number(e)>>
  ELSE LET d == CHOOSE d \in DOMAIN e : e[d] = "-"
           lower == Number(SubSeq(e, 1, d - 1))
           upper == Number(SubSeq(e, d + 1, Len(e)))
       IN [k \in 1..(upper - lower + 1) |-> lower + k - 1]

RECURSIVE DenotedBy(_)
DenotedBy(entries) ==
  IF entries = <<>> THEN <<>> ELSE Denoted(Head(entries)) \o DenotedBy(Tail(entries))

\* Comma-separated non-negative integers and ranges lower-upper with lower <= upper.
IsRangeList(s) ==
  LET entries == SplitOn(s, ",")
  IN \A k \in DOMAIN entries : AllDigits(entries[k]) \/ IsRangeEntry(entries[k])

FirstAt(flat, n) == MinOf({k \in DOMAIN flat : flat[k] = n})

\* C25: for comma-separated non-negative integers and ranges lower-upper with
\* lower <= upper, parseRange returns every denoted number once (ranges inclusive
\* at both ends), in the order of first appearance.
C25_EachNumberOnceInOrder ==
  (ArgReturned("parseRange") /\ IsRangeList(argv)) =>
    /\ argOut.kind = "returns"
    /\ LET result == argOut.value.a
           flat == DenotedBy(SplitOn(argv, ","))
       IN /\ Range(result) = Range(flat)
          /\ \A i, j \in DOMAIN result :
               i < j => /\ result[i] # result[j]
                        /\ FirstAt(flat, result[i]) < FirstAt(flat, result[j])

\* parseRange returned from a list with a range and a number named twice.
C25_Witness ==
  /\ ArgReturned("parseRange")
  /\ IsRangeList(argv)
  /\ \E k \in DOMAIN SplitOn(argv, ",") : IsRangeEntry(SplitOn(argv, ",")[k])
  /\ Len(DenotedBy(SplitOn(argv, ","))) > Len(argOut.value.a)
  /\ Len(argOut.value.a) >= 3

\* A number: decimal digits, with or without a sign.
IsNumberEntry(e) == AllDigits(e) \/ (e # <<>> /\ Head(e) = "-" /\ AllDigits(Tail(e)))

\* A comma-separated list of numbers and ranges lower-upper with lower <= upper
\* (white space around an entry and empty entries beside others do not count).
IsNumbersAndRanges(s) ==
  LET entries == SplitOn(Trim(s), ",")
      given == {k \in DOMAIN entries : Trim(entries[k]) # <<>>}
  IN /\ given # {}
     /\ \A k \in given : IsNumberEntry(Trim(entries[k])) \/ IsRangeEntry(Trim(entries[k]))

\* C26: parseRange throws ArgsError for every input that is not a comma-separated
\* list of numbers and ranges: empty or blank input, an entry with non-numeric
\* text, a range whose lower bound exceeds its upper bound.
C26_ThrowsUnlessNumbersAndRanges ==
  (ArgReturned("parseRange") /\ ~IsNumbersAndRanges(argv)) => argOut = ThrowsArgsError

\* ---- getArg
\* The text after the first '=' of s.
AfterFirstEquals(s) ==
  SubSeq(s, MinOf({k \in DOMAIN s : s[k] = "="}) + 1, Len(s))

\* C27: getArg returns undefined when no argument is one of the flags or starts
\* with flag=; for flag=value the whole text after the first '='; for a bare flag
\* the following argument when there is one that does not start with '-', and
\* true otherwise.
C27_GetArgResult ==
  ArgReturned("getArg") =>
    LET names == {argCall.name} \cup Range(argCall.aliases)
        flags == {argNameToFlag(n) : n \in names}
        Bare(s) == s \in flags
        WithValue(s) == \E f \in flags : StartsWith(s, f \o <<"=">>)
        given == {k \in DOMAIN argv : Bare(argv[k]) \/ WithValue(argv[k])}
    IN IF given = {} THEN argOut = VUndefined
       ELSE LET k == MinOf(given)
            IN IF WithValue(argv[k]) THEN argOut = VString(AfterFirstEquals(argv[k]))
               ELSE IF k < Len(argv) /\ argv[k + 1][1] # "-"
               THEN argOut = VString(argv[k + 1])
               ELSE argOut = VBoolean(TRUE)

\* ---- makeArgGetter
\* What the getter makes of a thrown ArgsError.
ExitOnArgsError(outcome) == IF outcome.kind = "ArgsError" THEN Exits(1) ELSE outcome

\* The bare flag and the absent flag.
GetterWithoutValue(argValue) ==
  IF argValue.t = "boolean"
  THEN IF argCall.getter.default.t = "boolean"
       THEN argOut = Returns(VBoolean(TRUE))
       ELSE argOut = Exits(1)
  ELSE IF argCall.opts.default.t # "undefined" THEN argOut = Returns(argCall.opts.default)
  ELSE IF argCall.opts.required THEN argOut = Exits(1)
  ELSE argOut = Returns(argCall.getter.default)

\* C28 as stated: a value goes to parse and the getter ends as parse(value) does; a
\* bare flag is true for a boolean getter only, else an ArgsError and exit 1; an
\* absent flag is opts.default when defined, else exit 1 when required, else the
\* getter's own default.
C28_GetterResolution ==
  ArgReturned("getter") =>
    LET argValue == getArg(argv, argCall.name, argCall.aliases)
    IN IF argValue.t = "string"
       THEN argOut = ExitOnArgsError(Parse(argCall.getter.parse, argValue.s))
       ELSE GetterWithoutValue(argValue)

\* C28 amended: a value goes to parse and then to opts.validate: an ArgsError of
\* either ends the process with status 1, another error of validate leaves the
\* getter, and otherwise the getter returns parse(value); the rest as stated.
C28_GetterResolutionValidated ==
  ArgReturned("getter") =>
    LET argValue == getArg(argv, argCall.name, argCall.aliases)
        parsed == Parse(argCall.getter.parse, argValue.s)
    IN IF argValue.t = "string"
       THEN IF parsed.kind = "returns" /\ argCall.opts.validate = "ArgsError"
            THEN argOut = Exits(1)
            ELSE IF parsed.kind = "returns" /\ argCall.opts.validate = "Error"
            THEN argOut = Throws
            ELSE argOut = ExitOnArgsError(parsed)
       ELSE GetterWithoutValue(argValue)

\* A value was given and parsed, and opts.validate rejected it.
C28_Witness ==
  /\ ArgReturned("getter")
  /\ getArg(argv, argCall.name, argCall.aliases).t = "string"
  /\ argCall.opts.validate = "ArgsError"
  /\ argCall.getter = getNumberArg
  /\ argOut = Exits(1)

\* ==========================================================================
\* scripts/sample-chunked.js: createChunkedSampleFromFile
\* ==========================================================================

\* At most this many buildings in a file cut into chunks.
MaxChunkBuildings == 7
\* At most this many buildings per chunk.
MaxChunkSize == 3

\* CITYGML_HEADER, CITYGML_FOOTER
CityGMLHeader == Line("CITYGML_HEADER", -1, <<>>)
CityGMLFooter == Line("CITYGML_FOOTER", -1, <<>>)

\* The bodies a file of complete buildings repeats.
ChunkShapes ==
  { <<Inside>>, <<GroundOutsideRoofInside, NoPositions>>, <<HeightThenInside, Inside>> }

\* A file: n complete buildings; when truncated, the first lines of one more
\* building follow, whose closing tag never comes.
ChunkFiles ==
  [n : 0..MaxChunkBuildings, shapes : ChunkShapes, chunkSize : 1..MaxChunkSize,
   truncated : BOOLEAN]

\* The lines the k-th building of the file arrives as (k from 0).
ChunkLinesOf(file, k) ==
  IF k < file.n THEN LinesOf(file, k)
  ELSE (IF k = 0 THEN <<HeaderLine, HeaderLine>> ELSE <<>>)
         \o <<MemberLine, BuildingLine(k), OpenLine, PosListLine(InsideXYZ)>>

\* The number of buildings the file opens.
ChunkStarts(file) == file.n + (IF file.truncated THEN 1 ELSE 0)

\* A chunk file on disk: the lines written to it, and whether its stream was ended.
NewChunk == [lines |-> <<CityGMLHeader>>, ended |-> FALSE]

\* The locals of createChunkedSampleFromFile at its start; currentChunkStream is
\* the number of the chunk file it writes, 0 for null.
ChunkLocals ==
  [ headerComplete |-> FALSE, inBuilding |-> FALSE, buildingDepth |-> 0,
    currentBuilding |-> <<>>, buildingCount |-> 0, chunkCount |-> 0,
    buildingsInCurrentChunk |-> 0, currentChunkStream |-> 0, chunks |-> <<>> ]

ChunkInit ==
  /\ RunIdle
  /\ FixIdle
  /\ CliIdle
  /\ PosIdle
  /\ GeoIdle
  /\ DocIdle
  /\ DaIdle
  /\ BatchIdle
  /\ SmpIdle
  /\ ArgIdle
  /\ FltIdle
  /\ TsIdle
  /\ GmlIdle
  /\ chkFile \in ChunkFiles
  /\ chkPc = "reading"
  /\ chk = ChunkLocals
  /\ chkOut = <<>>

\* currentChunkStream.write(line)
WriteToChunk(st, lines) ==
  [st EXCEPT !.chunks[st.currentChunkStream].lines = @ \o lines]

ChunkFullLate(count, chunkSize) == count > chunkSize
\* buildingsInCurrentChunk >= chunkSize
ChunkFull(count, chunkSize) == count >= chunkSize

\* The building just closed is written to the current chunk, which is closed
\* when it is full.
ChunkBuildingComplete(st, chunkSize) ==
  LET written == [WriteToChunk(st, Append(st.currentBuilding, MemberLine))
                    EXCEPT !.buildingsInCurrentChunk = @ + 1]
      closed == IF ChunkFull(written.buildingsInCurrentChunk, chunkSize)
                THEN [WriteToChunk(written, <<CityGMLFooter>>)
                        EXCEPT !.chunks[written.currentChunkStream].ended = TRUE,
                               !.buildingsInCurrentChunk = 0,
                               !.currentChunkStream = 0]
                ELSE written
  IN [closed EXCEPT !.currentBuilding = <<>>, !.inBuilding = FALSE]

chunkProcessLine(st, line, chunkSize) ==
  IF ~st.headerComplete /\ IncludesMember(line)
  THEN [st EXCEPT !.headerComplete = TRUE]
  ELSE IF ~st.headerComplete THEN st
  ELSE IF ~st.inBuilding /\ IncludesBuilding(line)
  THEN LET started == [st EXCEPT !.inBuilding = TRUE, !.buildingDepth = 1,
                                 !.currentBuilding = <<MemberLine, line>>,
                                 !.buildingCount = @ + 1]
       IN IF st.buildingsInCurrentChunk = 0
          THEN [started EXCEPT !.chunkCount = @ + 1,
                               !.currentChunkStream = st.chunkCount + 1,
                               !.chunks = Append(@, NewChunk)]
          ELSE started
  ELSE IF st.inBuilding
  THEN LET pushed == [st EXCEPT !.currentBuilding = Append(@, line)]
       IN IF IncludesBldg(line) /\ ~IncludesBldgEnd(line)
          THEN [pushed EXCEPT !.buildingDepth = @ + 1]
          ELSE IF IncludesBldgEnd(line)
          THEN IF pushed.buildingDepth - 1 = 0
               THEN ChunkBuildingComplete([pushed EXCEPT !.buildingDepth = @ - 1], chunkSize)
               ELSE [pushed EXCEPT !.buildingDepth = @ - 1]
          ELSE pushed
  ELSE st

RECURSIVE chunkProcessLines(_, _, _)
chunkProcessLines(st, lines, chunkSize) ==
  IF lines = <<>> THEN st
  ELSE chunkProcessLines(chunkProcessLine(st, Head(lines), chunkSize), Tail(lines), chunkSize)

ChunkResult == [totalBuildings |-> chk.buildingCount, totalChunks |-> chk.chunkCount,
                chunkSize |-> chkFile.chunkSize]

\* fileStream 'data': the lines of the next building.
ChunkData ==
  /\ chkPc = "reading"
  /\ chk.buildingCount < ChunkStarts(chkFile)
  /\ chk' = chunkProcessLines(chk, ChunkLinesOf(chkFile, chk.buildingCount), chkFile.chunkSize)
  /\ UNCHANGED <<chkFile, chkPc, chkOut>>
  /\ ChkFrame

\* fileStream 'end': the last chunk is closed if it holds buildings; the promise
\* resolves at once without a current stream, else on its 'finish'.
ChunkEnd ==
  /\ chkPc = "reading"
  /\ chk.buildingCount = ChunkStarts(chkFile)
  /\ LET closed == IF chk.currentChunkStream # 0 /\ chk.buildingsInCurrentChunk > 0
                   THEN [WriteToChunk(chk, <<CityGMLFooter>>)
                           EXCEPT !.chunks[chk.currentChunkStream].ended = TRUE]
                   ELSE chk
     IN /\ chk' = closed
        /\ IF chk.currentChunkStream # 0
           THEN chkPc' = "waiting" /\ UNCHANGED chkOut
           ELSE chkPc' = "resolved" /\ chkOut' = ChunkResult
  /\ UNCHANGED chkFile
  /\ ChkFrame

\* currentChunkStream 'finish': emitted once the stream was ended.
ChunkFinish ==
  /\ chkPc = "waiting"
  /\ chk.chunks[chk.currentChunkStream].ended
  /\ chkPc' = "resolved"
  /\ chkOut' = ChunkResult
  /\ UNCHANGED <<chkFile, chk>>
  /\ ChkFrame

\* fileStream 'error': the promise rejects.
ChunkError ==
  /\ chkPc = "reading"
  /\ chkPc' = "rejected"
  /\ UNCHANGED <<chkFile, chk, chkOut>>
  /\ ChkFrame

ChunkNext == ChunkData \/ ChunkEnd \/ ChunkFinish \/ ChunkError

SpecChunk == ChunkInit /\ [][ChunkNext]_vars

\* ---- claims about the chunks
\* The buildings of a chunk file, by their position in the input.
BuildingsIn(chunk) ==
  LET at == SelectSeq(chunk.lines, IncludesBuilding)
  IN [k \in DOMAIN at |-> at[k].id]

RECURSIVE BuildingsInAll(_)
BuildingsInAll(chunks) ==
  IF chunks = <<>> THEN <<>> ELSE BuildingsIn(Head(chunks)) \o BuildingsInAll(Tail(chunks))

MaxFilterBuildings == 4
MaxFilterChunkSize == 2

\* The bodies an input file repeats.
FilterShapes == { <<Inside>>, <<Inside, Outside>>, <<Outside, Inside>>, <<NoPositions>> }

FilterFiles ==
  { [n |-> n, shapes |-> shapes, percent |-> percent, chunkSize |-> chunkSize,
     filter |-> filter, seed |-> seed,
     envelope |-> IF declared THEN EnvelopeOf(shapes) ELSE NoEnvelope] :
      n \in 0..MaxFilterBuildings, shapes \in FilterShapes, percent \in Percents,
      chunkSize \in 0..MaxFilterChunkSize, filter \in {"none", "region", "polygon"},
      seed \in Seeds, declared \in BOOLEAN }

FilterInit ==
  /\ RunIdle
  /\ FixIdle
  /\ CliIdle
  /\ PosIdle
  /\ GeoIdle
  /\ DocIdle
  /\ DaIdle
  /\ BatchIdle
  /\ SmpIdle
  /\ ArgIdle
  /\ ChkIdle
  /\ TsIdle
  /\ GmlIdle
  /\ fltFile \in FilterFiles
  /\ fltPc = "begin"
  /\ flt = <<>>
  /\ fltOut = <<>>

\* extractionPositionPoints: the X, Y, Z triples of a one-line position list,
\* the empty array otherwise.
extractionPositionPoints(line) ==
  IF line.kind = "posList"
  THEN [k \in 1..((Len(line.coords) + 2) \div 3) |->
          <<line.coords[3 * k - 2], line.coords[3 * k - 1], line.coords[3 * k]>>]
  ELSE <<>>

\* A chunk file: the lines written to it, whether its stream was ended, whether
\* the file was unlinked.
FilterChunk == [lines |-> <<CityGMLHeader>>, ended |-> FALSE, unlinked |-> FALSE]

\* The locals of filterFile at the creation of the read stream.  currentChunkStream
\* is the number of the chunk file being written, 0 for undefined; chunks are the
\* files created so far; thrown tells that processLine threw.
FilterLocals(selected) ==
  [ headerComplete |-> FALSE, inBuilding |-> FALSE, buildingDepth |-> 0,
    currentBuilding |-> <<>>, buildingCount |-> 0, filteredCount |-> 0,
    currentBuildingInBoundary |-> FALSE, buildingPoints |-> <<>>,
    skipBuildingLines |-> FALSE, currentChunkStream |-> 0, chunkCount |-> 0,
    buildingsInCurrentChunk |-> 0, selectedIndicesSet |-> selected,
    chunks |-> <<>>, thrown |-> FALSE ]

\* The reset at the end of a building.
FilterBuildingReset(st) ==
  [st EXCEPT !.currentBuilding = <<>>, !.inBuilding = FALSE,
             !.currentBuildingInBoundary = FALSE, !.buildingPoints = <<>>,
             !.skipBuildingLines = FALSE]

\* The opening line of a building: the building is counted and, when no chunk
\* stream is open and chunkSize is not 0, the next chunk file is created and
\* gets the header.
FilterBuildingStart(st, line, chunkSize) ==
  LET started == [st EXCEPT !.inBuilding = TRUE, !.buildingDepth = 1,
                            !.currentBuilding = <<MemberLine, line>>,
                            !.buildingCount = @ + 1,
                            !.currentBuildingInBoundary = FALSE,
                            !.buildingPoints = <<>>,
                            !.skipBuildingLines = FALSE]
  IN IF chunkSize # 0 /\ started.currentChunkStream = 0
     THEN [started EXCEPT !.chunkCount = @ + 1,
                          !.chunks = Append(@, FilterChunk),
                          !.currentChunkStream = st.chunkCount + 1]
     ELSE started

FilterChunkFullLate(st, chunkSize) == st.buildingsInCurrentChunk > chunkSize
\* buildingsInCurrentChunk >= chunkSize
FilterChunkFull(st, chunkSize) == st.buildingsInCurrentChunk >= chunkSize

\* The selected building is written to the current chunk; a full chunk gets the
\* footer, its stream is ended and forgotten.  Without a chunk stream the write
\* throws a TypeError.
FilterWriteBuilding(st, building, chunkSize) ==
  IF st.currentChunkStream = 0 THEN [st EXCEPT !.thrown = TRUE]
  ELSE LET c == st.currentChunkStream
           written == [st EXCEPT !.chunks[c].lines = @ \o building,
                                 !.buildingsInCurrentChunk = @ + 1,
                                 !.filteredCount = @ + 1]
       IN IF FilterChunkFull(written, chunkSize)
          THEN [written EXCEPT !.chunks[c].lines = Append(@, CityGMLFooter),
                               !.chunks[c].ended = TRUE,
                               !.buildingsInCurrentChunk = 0,
                               !.currentChunkStream = 0]
          ELSE written

\* The closing tag of a building: without a filter, or in the boundary, the
\* building is written when its count modulo 100 is one of the selected indices.
FilterBuildingComplete(st, filtering, chunkSize) ==
  LET positionInGroup == st.buildingCount % GroupSize
      building == Append(st.currentBuilding, MemberLine)
      done == IF (~filtering \/ st.currentBuildingInBoundary)
                 /\ positionInGroup \in st.selectedIndicesSet
              THEN FilterWriteBuilding(st, building, chunkSize)
              ELSE st
  IN IF done.thrown THEN done ELSE FilterBuildingReset(done)

\* A line of a building that is kept: pushed, then the depth is followed.
FilterKeepLine(st, line, filtering, chunkSize) ==
  LET pushed == [st EXCEPT !.currentBuilding = Append(@, line)]
  IN IF IncludesBldg(line) /\ ~IncludesBldgEnd(line)
     THEN [pushed EXCEPT !.buildingDepth = @ + 1]
     ELSE IF IncludesBldgEnd(line)
     THEN IF pushed.buildingDepth - 1 = 0
          THEN FilterBuildingComplete([pushed EXCEPT !.buildingDepth = @ - 1],
                                      filtering, chunkSize)
          ELSE [pushed EXCEPT !.buildingDepth = @ - 1]
     ELSE pushed

\* A line of a building that is being skipped: only the depth is followed.
FilterSkipLine(st, line) ==
  IF IncludesBldg(line) /\ ~IncludesBldgEnd(line)
  THEN [st EXCEPT !.buildingDepth = @ + 1]
  ELSE IF IncludesBldgEnd(line)
  THEN IF st.buildingDepth - 1 = 0
       THEN FilterBuildingReset([st EXCEPT !.buildingDepth = @ - 1])
       ELSE [st EXCEPT !.buildingDepth = @ - 1]
  ELSE st

filterProcessLine(st, line, file) ==
  LET filtering == file.filter # "none"
  IN IF ~st.headerComplete
     THEN IF IncludesMember(line) THEN [st EXCEPT !.headerComplete = TRUE] ELSE st
     ELSE IF ~st.inBuilding /\ IncludesBuilding(line)
     THEN FilterBuildingStart(st, line, file.chunkSize)
     ELSE IF st.inBuilding
     THEN IF st.skipBuildingLines THEN FilterSkipLine(st, line)
          ELSE IF filtering /\ Len(st.buildingPoints) = 0 /\ IncludesPos(line)
          THEN LET extracted == extractionPositionPoints(line)
                   inTargetArea == isInPolygon(extracted, Boundary(file))
                   found == [st EXCEPT !.buildingPoints = extracted]
               IN IF Len(extracted) > 0
                  THEN IF ~inTargetArea
                       THEN [found EXCEPT !.currentBuildingInBoundary = FALSE,
                                          !.skipBuildingLines = TRUE]
                       ELSE FilterKeepLine([found EXCEPT !.currentBuildingInBoundary = TRUE],
                                           line, filtering, file.chunkSize)
                  ELSE FilterKeepLine(found, line, filtering, file.chunkSize)
          ELSE FilterKeepLine(st, line, filtering, file.chunkSize)
     ELSE st

\* The lines of one 'data' event, up to the first that throws.
RECURSIVE filterProcessLines(_, _, _)
filterProcessLines(st, lines, file) ==
  IF lines = <<>> \/ st.thrown THEN st
  ELSE filterProcessLines(filterProcessLine(st, Head(lines), file), Tail(lines), file)

\* The FilterResult of a run.
FilterResult(st) ==
  [buildingCount |-> st.buildingCount, filteredCount |-> st.filteredCount,
   chunkCount |-> st.chunkCount]

\* ---- the run
\* Up to the creation of the promise: the envelope check, the read stream, the
\* choice of the selected indices.
FilterBegin ==
  /\ fltPc = "begin"
  /\ IF fltFile.filter # "none" /\ isEnvelopeOutsideFilter(fltFile.envelope, fltFile)
     THEN /\ fltPc' = "returned"
          /\ fltOut' = [buildingCount |-> 0, filteredCount |-> 0, chunkCount |-> 0]
          /\ UNCHANGED flt
     ELSE /\ fltPc' = "reading"
          /\ flt' = FilterLocals(SelectedIndices(fltFile.percent, fltFile.seed))
          /\ UNCHANGED fltOut
  /\ UNCHANGED fltFile
  /\ FltFrame

\* fileStream 'data': the lines of the next building; the promise rejects when
\* processLine throws.
FilterData ==
  /\ fltPc = "reading"
  /\ flt.buildingCount < fltFile.n
  /\ LET after == filterProcessLines(flt, LinesOf(fltFile, flt.buildingCount), fltFile)
     IN /\ flt' = after
        /\ fltPc' = IF after.thrown THEN "rejected" ELSE "reading"
  /\ UNCHANGED <<fltFile, fltOut>>
  /\ FltFrame

\* The last chunk is closed if it has content.
CloseLastChunk(st) ==
  IF st.currentChunkStream # 0 /\ st.buildingsInCurrentChunk > 0
  THEN [st EXCEPT !.chunks[st.currentChunkStream].lines = Append(@, CityGMLFooter),
                  !.chunks[st.currentChunkStream].ended = TRUE]
  ELSE st

KeepEmptyChunk(st) ==
  IF st.currentChunkStream # 0
  THEN [st EXCEPT !.chunks[st.currentChunkStream].ended = TRUE]
  ELSE st
\* No building was filtered: the stream of the empty chunk is ended and its file
\* unlinked.
RemoveEmptyChunk(st) ==
  IF st.currentChunkStream # 0
  THEN [st EXCEPT !.chunks[st.currentChunkStream].ended = TRUE,
                  !.chunks[st.currentChunkStream].unlinked = TRUE]
  ELSE st

\* fileStream 'end': the last chunk is closed if it has content; then the run
\* waits for 'finish' of the current chunk stream if there is one and a building
\* was filtered, and else removes the empty chunk and resolves.
FilterEnd ==
  /\ fltPc = "reading"
  /\ flt.buildingCount = fltFile.n
  /\ LET closed == CloseLastChunk(flt)
     IN IF closed.currentChunkStream # 0 /\ closed.filteredCount > 0
        THEN /\ flt' = closed
             /\ fltPc' = "waiting"
             /\ UNCHANGED fltOut
        ELSE /\ flt' = RemoveEmptyChunk(closed)
             /\ fltPc' = "resolved"
             /\ fltOut' = FilterResult(closed)
  /\ UNCHANGED fltFile
  /\ FltFrame

\* currentChunkStream 'finish', which a stream emits once it was ended and its
\* writes are flushed: the promise resolves.
FilterFinish ==
  /\ fltPc = "waiting"
  /\ flt.chunks[flt.currentChunkStream].ended
  /\ fltPc' = "resolved"
  /\ fltOut' = FilterResult(flt)
  /\ UNCHANGED <<fltFile, flt>>
  /\ FltFrame

\* fileStream 'error': the promise rejects.
FilterError ==
  /\ fltPc = "reading"
  /\ fltPc' = "rejected"
  /\ UNCHANGED <<fltFile, flt, fltOut>>
  /\ FltFrame

FltNext == FilterBegin \/ FilterData \/ FilterEnd \/ FilterFinish \/ FilterError

SpecFilter == FilterInit /\ [][FltNext]_vars

\* ---- claims about the promise and the chunk files
\* The stream the run waits for to finish.
AwaitedStream == flt.chunks[flt.currentChunkStream]

\* C29: the promise of the streaming filter settles after the input stream has
\* ended: a run never waits for the 'finish' event of a chunk stream that was
\* never ended.
C29_NeverWaitsForUnendedStream == fltPc = "waiting" => AwaitedStream.ended

\* The chunk files left on disk.
ChunksOnDisk == {k \in DOMAIN flt.chunks : ~flt.chunks[k].unlinked}

\* A chunk file that begins with the header, holds 1 to c buildings and ends
\* with the footer.
WellFormedChunk(chunk, c) ==
  /\ Len(chunk.lines) >= 2
  /\ chunk.lines[1] = CityGMLHeader
  /\ chunk.lines[Len(chunk.lines)] = CityGMLFooter
  /\ Cardinality({k \in DOMAIN chunk.lines : IncludesBuilding(chunk.lines[k])}) \in 1..c
  /\ \A k \in 2..(Len(chunk.lines) - 1) : chunk.lines[k] \notin {CityGMLHeader, CityGMLFooter}

\* C30: when filterFile completes with chunk size c >= 1, every chunk file left
\* on disk begins with the header, holds at least 1 and at most c buildings and
\* ends with the footer.
C30_ChunksLeftAreWellFormed ==
  (fltPc = "resolved" /\ fltFile.chunkSize >= 1)
    => \A k \in ChunksOnDisk : WellFormedChunk(flt.chunks[k], fltFile.chunkSize)

\* A completed run that left a full chunk and a last chunk with fewer buildings,
\* and one that removed its empty chunk.
C30_Witness ==
  /\ fltPc = "resolved"
  /\ fltFile.chunkSize = MaxFilterChunkSize
  /\ Cardinality(ChunksOnDisk) >= 2
  /\ Len(BuildingsIn(flt.chunks[Len(flt.chunks)])) < fltFile.chunkSize

\* ==========================================================================
\* createSampleFromFile and processAllFiles (scripts/sample.ts): the sampler
\* that selects at the closing tag of a building, writes chunk files when
\* chunkSize is not 0 and collects buildingLines otherwise.
\* ==========================================================================

\* The locals of createSampleFromFile at the creation of the read stream.
\* currentChunkStream is the number of the chunk file being written, 0 for
\* undefined; chunks are the chunk files created so far.
TsLocals(selected) ==
  [ headerComplete |-> FALSE, inBuilding |-> FALSE, buildingDepth |-> 0,
    currentBuilding |-> <<>>, buildingCount |-> 0, buildingLines |-> <<>>,
    currentBuildingInBoundary |-> FALSE, buildingPoints |-> <<>>,
    skipBuildingLines |-> FALSE, currentChunkStream |-> 0, chunkCount |-> 0,
    buildingsInCurrentChunk |-> 0, selectedIndicesSet |-> selected,
    chunks |-> <<>> ]

TsInit ==
  /\ RunIdle
  /\ FixIdle
  /\ CliIdle
  /\ PosIdle
  /\ GeoIdle
  /\ DocIdle
  /\ DaIdle
  /\ BatchIdle
  /\ SmpIdle
  /\ ArgIdle
  /\ ChkIdle
  /\ FltIdle
  /\ GmlIdle
  /\ tsFile \in FilterFiles
  /\ tsPc = "begin"
  /\ ts = <<>>
  /\ tsOut = <<>>

\* The selected building goes to the current chunk when chunkSize is not 0 (a full
\* chunk gets the footer, its stream is ended and forgotten) and to buildingLines
\* otherwise.
TsWriteBuilding(st, building, chunkSize) ==
  IF chunkSize # 0
  THEN LET c == st.currentChunkStream
           written == [st EXCEPT !.chunks[c].lines = @ \o building,
                                 !.buildingsInCurrentChunk = @ + 1]
       IN IF written.buildingsInCurrentChunk >= chunkSize
          THEN [written EXCEPT !.chunks[c].lines = Append(@, CityGMLFooter),
                               !.chunks[c].ended = TRUE,
                               !.buildingsInCurrentChunk = 0,
                               !.currentChunkStream = 0]
          ELSE written
  ELSE [st EXCEPT !.buildingLines = @ \o building]

\* The closing tag of a building: without a filter, or in the boundary, the
\* building is written when its count modulo 100 is one of the selected indices.
TsBuildingComplete(st, filtering, chunkSize) ==
  LET positionInGroup == st.buildingCount % GroupSize
      building == Append(st.currentBuilding, MemberLine)
  IN FilterBuildingReset(
       IF (~filtering \/ st.currentBuildingInBoundary)
          /\ positionInGroup \in st.selectedIndicesSet
       THEN TsWriteBuilding(st, building, chunkSize)
       ELSE st)

\* A line of a building that is kept: pushed, then the depth is followed.
TsKeepLine(st, line, filtering, chunkSize) ==
  LET pushed == [st EXCEPT !.currentBuilding = Append(@, line)]
  IN IF IncludesBldg(line) /\ ~IncludesBldgEnd(line)
     THEN [pushed EXCEPT !.buildingDepth = @ + 1]
     ELSE IF IncludesBldgEnd(line)
     THEN IF pushed.buildingDepth - 1 = 0
          THEN TsBuildingComplete([pushed EXCEPT !.buildingDepth = @ - 1],
                                  filtering, chunkSize)
          ELSE [pushed EXCEPT !.buildingDepth = @ - 1]
     ELSE pushed

tsProcessLine(st, line, file) ==
  LET filtering == file.filter # "none"
  IN IF ~st.headerComplete
     THEN IF IncludesMember(line) THEN [st EXCEPT !.headerComplete = TRUE] ELSE st
     ELSE IF ~st.inBuilding /\ IncludesBuilding(line)
     THEN FilterBuildingStart(st, line, file.chunkSize)
     ELSE IF st.inBuilding
     THEN IF st.skipBuildingLines THEN FilterSkipLine(st, line)
          ELSE IF filtering /\ Len(st.buildingPoints) = 0 /\ IncludesPos(line)
          THEN LET extracted == extractionPositionPoints(line)
                   inTargetArea == isInPolygon(extracted, Boundary(file))
                   found == [st EXCEPT !.buildingPoints = extracted]
               IN IF Len(extracted) > 0
                  THEN IF ~inTargetArea
                       THEN [found EXCEPT !.currentBuildingInBoundary = FALSE,
                                          !.skipBuildingLines = TRUE]
                       ELSE TsKeepLine([found EXCEPT !.currentBuildingInBoundary = TRUE],
                                       line, filtering, file.chunkSize)
                  ELSE TsKeepLine(found, line, filtering, file.chunkSize)
          ELSE TsKeepLine(st, line, filtering, file.chunkSize)
     ELSE st

RECURSIVE tsProcessLines(_, _, _)
tsProcessLines(st, lines, file) ==
  IF lines = <<>> THEN st
  ELSE tsProcessLines(tsProcessLine(st, Head(lines), file), Tail(lines), file)

\* The FilterResult of a run: filteredCount is the number of opening lines in
\* buildingLines.
TsResult(st) ==
  [buildingCount |-> st.buildingCount,
   filteredCount |-> Len(SelectSeq(st.buildingLines, IncludesBuilding)),
   chunkCount |-> st.chunkCount]

\* What the loop of processAllFiles makes of a result: a file with a sample, or
\* an empty one.
StatusOf(result) == IF result.filteredCount > 0 THEN "sample" ELSE "empty"

\* ---- the run
TsBegin ==
  /\ tsPc = "begin"
  /\ IF tsFile.filter # "none" /\ isEnvelopeOutsideFilter(tsFile.envelope, tsFile)
     THEN /\ tsPc' = "returned"
          /\ tsOut' = [buildingCount |-> 0, filteredCount |-> 0, chunkCount |-> 0]
          /\ UNCHANGED ts
     ELSE /\ tsPc' = "reading"
          /\ ts' = TsLocals(SelectedIndices(tsFile.percent, tsFile.seed))
          /\ UNCHANGED tsOut
  /\ UNCHANGED tsFile
  /\ TsFrame

\* fileStream 'data': the lines of the next building.
TsData ==
  /\ tsPc = "reading"
  /\ ts.buildingCount < tsFile.n
  /\ ts' = tsProcessLines(ts, LinesOf(tsFile, ts.buildingCount), tsFile)
  /\ UNCHANGED <<tsFile, tsPc, tsOut>>
  /\ TsFrame

\* fileStream 'end': the last chunk is closed if it has content; then the run
\* waits for 'finish' of the current chunk stream if there is one, and resolves
\* else.
TsEnd ==
  /\ tsPc = "reading"
  /\ ts.buildingCount = tsFile.n
  /\ LET closed == CloseLastChunk(ts)
     IN /\ ts' = closed
        /\ IF closed.currentChunkStream # 0
           THEN /\ tsPc' = "waiting"
                /\ UNCHANGED tsOut
           ELSE /\ tsPc' = "resolved"
                /\ tsOut' = TsResult(closed)
  /\ UNCHANGED tsFile
  /\ TsFrame

\* currentChunkStream 'finish', which a stream emits once it was ended and its
\* writes are flushed: the promise resolves.
TsFinish ==
  /\ tsPc = "waiting"
  /\ ts.chunks[ts.currentChunkStream].ended
  /\ tsPc' = "resolved"
  /\ tsOut' = TsResult(ts)
  /\ UNCHANGED <<tsFile, ts>>
  /\ TsFrame

\* fileStream 'error': the promise rejects.
TsError ==
  /\ tsPc = "reading"
  /\ tsPc' = "rejected"
  /\ UNCHANGED <<tsFile, ts, tsOut>>
  /\ TsFrame

\* processAllFiles, after the await: the file counts as a sample or as empty.
TsClassify ==
  /\ tsPc \in {"resolved", "returned"}
  /\ tsPc' = "classified"
  /\ tsOut' = [result |-> tsOut, status |-> StatusOf(tsOut)]
  /\ UNCHANGED <<tsFile, ts>>
  /\ TsFrame

TsNext == TsBegin \/ TsData \/ TsEnd \/ TsFinish \/ TsError \/ TsClassify

SpecTs == TsInit /\ [][TsNext]_vars

\* ---- claims about the counts
\* The buildings written to the chunk files of a run.  (In single-file mode
\* createSampleFromFile of sample.ts writes no file at all.)
RECURSIVE WrittenToChunks(_)
WrittenToChunks(chunks) ==
  IF chunks = <<>> THEN 0
  ELSE Len(SelectSeq(Head(chunks).lines, IncludesBuilding)) + WrittenToChunks(Tail(chunks))

\* C31: the filteredCount returned for a file is the number of buildings written
\* to its output, so processAllFiles takes the file for empty exactly when
\* nothing was written for it.
C31_FilteredCountIsBuildingsWritten ==
  /\ (tsPc = "resolved" => tsOut.filteredCount = WrittenToChunks(ts.chunks))
  /\ (tsPc = "classified" /\ ts # <<>>
        => (tsOut.status = "empty" <=> WrittenToChunks(ts.chunks) = 0))

\* ---- claims about the lines captured for a building (sample-chunked.js)
\* The lines of the k-th building from its opening line through the line of its
\* matching closing tag, between the cityObjectMember tags the code puts around
\* them.
WholeBuilding(file, k) == <<MemberLine, BuildingLine(k)>> \o ShapeOf(file, k) \o <<MemberLine>>

RECURSIVE WholeBuildings(_, _)
WholeBuildings(file, n) ==
  IF n = 0 THEN <<>> ELSE WholeBuildings(file, n - 1) \o WholeBuilding(file, n - 1)

\* The lines written to the chunk files, headers and footers left out.
RECURSIVE CapturedLines(_)
CapturedLines(chunks) ==
  IF chunks = <<>> THEN <<>>
  ELSE SelectSeq(Head(chunks).lines, LAMBDA l : l \notin {CityGMLHeader, CityGMLFooter})
         \o CapturedLines(Tail(chunks))

\* C32: the lines captured for every building run from its opening line through
\* the line of its matching closing tag and no further, for every well-formed
\* nesting of bldg: child elements, those that open and close on one line included.
C32_CapturedThroughMatchingClose ==
  (chkPc = "resolved" /\ ~chkFile.truncated)
    => CapturedLines(chk.chunks) = WholeBuildings(chkFile, chkFile.n)

\* ==========================================================================
\* createSampleFromFile (scripts/sample.js) on small files: buildings that
\* share an opening line (the same gml:id), buildings next to the boundary.
\* ==========================================================================

\* The most buildings of such a file.
MaxSmallBuildings == 4

\* A position list less than EPSILON to the right of the region, and of its
\* bounding box.
NearEdgeXYZ == <<1050, 500, 10>>
NearEdge == <<OtherLine, PosListLine(NearEdgeXYZ \o NearEdgeXYZ), CloseLine>>

SmallFiles ==
  { [n |-> n, shapes |-> shapes, percent |-> percent, filter |-> filter, seed |-> seed,
     ids |-> ids,
     envelope |-> IF declared THEN EnvelopeOf(shapes) ELSE NoEnvelope] :
      n \in 0..MaxSmallBuildings, shapes \in {<<Inside>>, <<Inside, Outside>>, <<NearEdge>>},
      percent \in Percents, filter \in {"none", "region", "polygon"}, seed \in Seeds,
      ids \in {"distinct", "pairs", "same"}, declared \in BOOLEAN }

SmallInit ==
  /\ RunIdle
  /\ FixIdle
  /\ CliIdle
  /\ PosIdle
  /\ GeoIdle
  /\ DocIdle
  /\ DaIdle
  /\ BatchIdle
  /\ ArgIdle
  /\ ChkIdle
  /\ FltIdle
  /\ TsIdle
  /\ GmlIdle
  /\ smpFile \in SmallFiles
  /\ smpPc = "begin"
  /\ selectedIndicesSet = {}
  /\ smp = <<>>
  /\ smpOut = <<>>

SpecSampleSmall == SmallInit /\ [][SmpNext]_vars

\* The positions (from 0) of the buildings that were sample-selected at their
\* opening line and, with a filter, have a point in the boundary.
SelectedAndPassed ==
  {i \in 0..(smp.counter - 1) :
     /\ (i % GroupSize) \in selectedIndicesSet
     /\ (smpFile.filter = "none" \/ SomePointInBoundary(i))}

\* The ids of the buildings at the given positions, in file order.
RECURSIVE IdsAt(_, _)
IdsAt(positions, n) ==
  IF n = 0 THEN <<>>
  ELSE IdsAt(positions, n - 1)
         \o (IF (n - 1) \in positions THEN <<IdOf(smpFile, n - 1)>> ELSE <<>>)

\* The ids of the opening lines written to the output, in order.
WrittenIds ==
  LET at == SelectSeq(smp.outputStream, IncludesBuilding)
  IN [k \in DOMAIN at |-> at[k].id]

\* C33: a building is written to the sample iff it was sample-selected at its
\* opening line and, with a filter, passed the filter; a building that was not
\* selected is never written, also when buildings have the same opening line.
C33_WrittenIffSelectedAndPassed ==
  smpPc = "resolved" => WrittenIds = IdsAt(SelectedAndPassed, smp.counter)

\* ---- claims about the buildings the filter rejects (filterFile)
\* The building at position i (from 0) of the input has no point in the boundary.
FilterRejects(i) ==
  /\ fltFile.filter # "none"
  /\ \A point \in PointsOfBuilding(ShapeOf(fltFile, i)) :
        ~pointInPolygon(point, Boundary(fltFile))

\* The positions of the buildings whose opening line is in a chunk file.
FilterWritten ==
  UNION {Range(BuildingsIn(flt.chunks[k])) : k \in DOMAIN flt.chunks}

\* C34: a building rejected by the filter leaves no trace: none of its lines is
\* written, no chunk file is created or counted for it, and after its closing tag
\* the state of the line processor is that after a completed building.
C34_RejectedLeavesNoTrace ==
  (fltPc \in {"reading", "waiting", "resolved"} /\ fltFile.filter # "none")
    => /\ \A i \in FilterWritten : ~FilterRejects(i)
       /\ ~flt.inBuilding /\ flt.buildingDepth = 0 /\ flt.currentBuilding = <<>>
       /\ ~flt.skipBuildingLines /\ flt.buildingPoints = <<>>
       /\ (\A i \in 0..(flt.buildingCount - 1) : FilterRejects(i))
            => flt.chunks = <<>> /\ flt.chunkCount = 0

\* ---- claims about the early skip of a file (sample.js)
\* The locals after the buildings 0..n-1 of a file went through processLine.
RECURSIVE ProcessedUpTo(_, _, _)
ProcessedUpTo(file, n, selected) ==
  IF n = 0 THEN SampleLocals
  ELSE processLines(ProcessedUpTo(file, n - 1, selected), SampleLinesOf(file, n - 1),
                    file, selected)

\* The buildings the file gives when it is processed building by building.
BuildingByBuilding(file) ==
  ProcessedUpTo(file, file.n, SelectedIndices(file.percent, file.seed)).buildingLines

\* The file was skipped for its declared envelope.
SkippedForEnvelope == smpPc = "returned"

\* C35: when a file is skipped because its declared envelope is outside the
\* bounding box of the filter polygon, processing it building by building would
\* have written no building (the envelope of a file here is the bounding box of
\* its position lists).
C35_SkipNeverChangesTheResult ==
  SkippedForEnvelope => BuildingByBuilding(smpFile) = <<>>

\* ==========================================================================
\* createSampleGML (tools/create-sample-gml.ts): the sampler that reads the
\* whole file and writes 5% of its buildings.  Lines are counted from 1 here,
\* from 0 in the code.
\* ==========================================================================

\* The most buildings of an input file.
MaxGmlBuildings == 45

\* A file: n buildings with the same body.
GmlFiles == [n : 0..MaxGmlBuildings, shape : {Inside, GroundOutsideRoofInside, HeightThenInside}]

\* content.split('\n'): two lines of header, then for every building the
\* cityObjectMember tag, the opening line, the body and the closing
\* cityObjectMember tag, then '</CityModel>' and the empty string after the last
\* newline.
GmlLines(file) ==
  LET block == Len(file.shape) + 3
  IN [i \in 1..(2 + file.n * block + 2) |->
        IF i <= 2 THEN HeaderLine
        ELSE IF i > 2 + file.n * block THEN OtherLine
        ELSE LET k == (i - 3) \div block
                 at == ((i - 3) % block) + 1
             IN IF at = 1 THEN MemberLine
                ELSE IF at = 2 THEN BuildingLine(k)
                ELSE IF at = block THEN OtherLine
                ELSE file.shape[at - 2]]

GmlInit ==
  /\ RunIdle
  /\ FixIdle
  /\ CliIdle
  /\ PosIdle
  /\ GeoIdle
  /\ DocIdle
  /\ DaIdle
  /\ BatchIdle
  /\ SmpIdle
  /\ ArgIdle
  /\ ChkIdle
  /\ FltIdle
  /\ TsIdle
  /\ gmlFile \in GmlFiles
  /\ gmlPc = "start"
  /\ gmlOut = <<>>

\* The lines before the first opening line of a building; none when there is no
\* building (headerEndIndex stays 0).
GmlHeader(lines) ==
  LET starts == {i \in DOMAIN lines : IncludesBuilding(lines[i])}
  IN IF starts = {} THEN <<>> ELSE SubSeq(lines, 1, MinOf(starts) - 1)

\* One turn of the loop that finds the ranges; currentStart is 0 for -1.
GmlScanLine(st, lines, i) ==
  LET line == lines[i]
  IN IF IncludesBuilding(line)
     THEN [st EXCEPT !.currentStart = i, !.depth = 1]
     ELSE IF st.currentStart # 0
     THEN IF IncludesBldg(line) /\ ~IncludesBldgEnd(line)
          THEN [st EXCEPT !.depth = @ + 1]
          ELSE IF IncludesBldgEnd(line)
          THEN IF st.depth - 1 = 0
               THEN [st EXCEPT !.depth = @ - 1, !.currentStart = 0,
                               !.buildingRanges =
                                  Append(@, [start |-> st.currentStart, end |-> i])]
               ELSE [st EXCEPT !.depth = @ - 1]
          ELSE st
     ELSE st

\* The loop over the lines first..last: its first half, then its second half.
\* (The halves keep the evaluation shallow; each result is bound as the element of
\* a set, so that TLC holds its value before the next turn starts.)
RECURSIVE GmlScan(_, _, _, _)
GmlScan(st, lines, first, last) ==
  IF first > last THEN st
  ELSE IF first = last THEN GmlScanLine(st, lines, first)
  ELSE LET mid == (first + last) \div 2
       IN CHOOSE scanned \in {GmlScan(lower, lines, mid + 1, last) :
                                lower \in {GmlScan(st, lines, first, mid)}} : TRUE

buildingRangesOf(lines) ==
  GmlScan([buildingRanges |-> <<>>, currentStart |-> 0, depth |-> 0],
          lines, 1, Len(lines)).buildingRanges

\* Math.floor(buildingRanges.length * 0.05).  0.05 is the double just above 1/20
\* and the product is rounded to the nearest double, so the floor is that of
\* length / 20.
SampleSizeOf(length) == length \div 20

StepEveryTwentieth(length, sampleSize) == 20
\* Math.floor(buildingRanges.length / sampleSize): Infinity, or NaN for an empty
\* file, when sampleSize is 0; the loop that uses it makes no turn then.
StepOf(length, sampleSize) ==
  IF sampleSize = 0 THEN Infinity ELSE length \div sampleSize

\* The ranges at the indices 0, step, 2 * step, ... that are below the number of
\* ranges.
selectedRangesOf(buildingRanges) ==
  LET sampleSize == SampleSizeOf(Len(buildingRanges))
      step == StepOf(Len(buildingRanges), sampleSize)
      kept == {i \in 0..(sampleSize - 1) : i * step < Len(buildingRanges)}
  IN [j \in 1..Cardinality(kept) |-> buildingRanges[(j - 1) * step + 1]]

\* The lines of the selected ranges, one range after the other.
RECURSIVE buildingContentsOf(_, _)
buildingContentsOf(lines, ranges) ==
  IF ranges = <<>> THEN <<>>
  ELSE SubSeq(lines, Head(ranges).start, Head(ranges).end)
         \o buildingContentsOf(lines, Tail(ranges))

\* createSampleGML, from readFileSync to writeFileSync.
createSampleGML ==
  /\ gmlPc = "start"
  /\ LET lines == GmlLines(gmlFile)
         buildingRanges == buildingRangesOf(lines)
         selectedRanges == selectedRangesOf(buildingRanges)
     IN gmlOut' = [found |-> Len(buildingRanges),
                   sampleContent |-> GmlHeader(lines)
                                       \o buildingContentsOf(lines, selectedRanges)
                                       \o <<MemberLine, CityGMLFooter>>]
  /\ gmlPc' = "done"
  /\ UNCHANGED gmlFile
  /\ GmlFrame

GmlNext == createSampleGML

SpecGml == GmlInit /\ [][GmlNext]_vars

\* ---- claims about the 5% sample
\* The positions in the input (from 0) of the buildings in the sample file, in the
\* order they were written.
GmlWritten ==
  LET at == SelectSeq(gmlOut.sampleContent, IncludesBuilding)
  IN [k \in DOMAIN at |-> at[k].id]

====
